---- MODULE Spec2Model ----
(***************************************************************************)
(* Model of the virtual terminal of cltree (src/src/vterm.rs).             *)
(*                                                                         *)
(* A VirtualTerminal is a record; every method of the Rust type is an      *)
(* operator from records to records.  Indices (cursor, scroll region) are  *)
(* 0-based as in the source; TLA+ sequences are 1-based, so grid[y][x] of  *)
(* the source is vt.grid[y + 1][x + 1] here.  An Option is a sequence of   *)
(* length 0 (None) or 1 (Some).  A Rust panic (index out of range,         *)
(* Vec::remove / Vec::insert out of range) sets the field `panicked`.      *)
(*                                                                         *)
(* A byte of the stream is a string: a one-character string is that ASCII  *)
(* byte, a longer name is the control byte (or the UTF-8 encoded code      *)
(* point) of that name.                                                    *)
(***************************************************************************)
EXTENDS Integers, Sequences, FiniteSets, TLC

VARIABLES vt, hist, pane, reader, task, app, os

\* vt is the VirtualTerminal (TerminalPane.vterm when there is a pane), hist
\* records what the last operation was; pane is the TerminalPane, reader its
\* reader thread, task the event task of EventHandler, app the App and the
\* loop of run_app, os the PTY and the channels between the threads
procvars == <<pane, reader, task, app, os>>

vars == <<vt, hist, pane, reader, task, app, os>>

\* a terminal on its own: no pane, no threads
NoProcess ==
    /\ pane = <<>>
    /\ reader = <<>>
    /\ task = <<>>
    /\ app = <<>>
    /\ os = <<>>

-----------------------------------------------------------------------------
(* Bounds of the model *)

\* longest scrollback the exploration lets build up before it stops scrolling
MaxScroll == 1
\* most replies left in the response queue before take_responses must run
MaxResp == 2
\* most replies left in the queue while a stream is read in pieces
MaxPending == 1
\* operations on the terminal whose scrollback is nearly full
MaxSteps == 5

(* Program constants *)

MAX_SCROLLBACK == 1000
U16_MAX == 65535

-----------------------------------------------------------------------------
(* Small helpers: Option, saturating arithmetic, Vec operations *)

None == <<>>
Some(v) == <<v>>
IsSome(o) == Len(o) = 1
Unwrap(o) == o[1]

Min(a, b) == IF a < b THEN a ELSE b
Max(a, b) == IF a > b THEN a ELSE b
SatSub(a, b) == IF a > b THEN a - b ELSE 0

\* Vec::remove(i): the vector without its element at 0-based index i
RemoveAt(s, i) == SubSeq(s, 1, i) \o SubSeq(s, i + 2, Len(s))
\* Vec::insert(i, e): e placed at 0-based index i
InsertAt(s, i, e) == SubSeq(s, 1, i) \o <<e>> \o SubSeq(s, i + 1, Len(s))

-----------------------------------------------------------------------------
(* Cell, Style, CursorState *)

\* ratatui Style::default(): no colours, no modifiers added or removed
DefaultStyle == [fg |-> None, bg |-> None, add |-> {}, sub |-> {}]

\* Cell::default(): one space, default style
DefaultCell == [ch |-> <<" ">>, style |-> DefaultStyle]

\* CursorState::default()
DefaultCursor == [x |-> 0, y |-> 0, visible |-> TRUE]

make_grid(cols, rows) == [r \in 1..rows |-> [c \in 1..cols |-> DefaultCell]]

make_row(v) == [c \in 1..v.cols |-> DefaultCell]

\* vte::Parser::new(): ground state, nothing collected
NewParser ==
    [state |-> "ground", params |-> <<>>, param |-> 0,
     inter |-> <<>>, ignoring |-> FALSE, osc |-> <<>>]

\* VirtualTerminal::new
New(cols, rows) ==
    [grid |-> make_grid(cols, rows),
     cols |-> cols,
     rows |-> rows,
     cursor |-> DefaultCursor,
     current_style |-> DefaultStyle,
     scrollback |-> <<>>,
     scroll_offset |-> 0,
     saved_cursor |-> None,
     saved_grid |-> None,
     saved_scrollback |-> None,
     saved_main_cursor |-> None,
     parser |-> Some(NewParser),
     scroll_top |-> 0,
     scroll_bottom |-> rows,
     response_queue |-> <<>>,
     reported_cwd |-> None,
     panicked |-> FALSE]

Panic(v) == [v EXCEPT !.panicked = TRUE]

\* grid[y][x] is a valid index
CellOK(v, y, x) == y < Len(v.grid) /\ x < Len(v.grid[y + 1])

\* grid[y][x] = cell
SetCell(v, y, x, cell) ==
    IF CellOK(v, y, x)
    THEN [v EXCEPT !.grid[y + 1][x + 1] = cell]
    ELSE Panic(v)

\* for c in from..to { grid[y][c] = Cell::default() }
EraseCells(v, y, from, to) ==
    IF from >= to THEN v
    ELSE IF y < Len(v.grid) /\ to <= Len(v.grid[y + 1])
    THEN [v EXCEPT !.grid[y + 1] =
             [c \in 1..Len(@) |-> IF c - 1 >= from /\ c - 1 < to
                                  THEN DefaultCell ELSE @[c]]]
    ELSE Panic(v)

\* for r in from..to { grid[r] = make_row() }
EraseRows(v, from, to) ==
    IF from >= to THEN v
    ELSE IF to <= Len(v.grid)
    THEN [v EXCEPT !.grid =
             [r \in 1..Len(@) |-> IF r - 1 >= from /\ r - 1 < to
                                  THEN make_row(v) ELSE @[r]]]
    ELSE Panic(v)

-----------------------------------------------------------------------------
(* resize, set_scroll_offset, take_responses *)

resize(v, cols, rows) ==
    IF cols = v.cols /\ rows = v.rows THEN v
    ELSE
      LET copy_rows == Min(rows, v.rows)
          copy_cols == Min(cols, v.cols)
          \* self.grid[r][c] is read for every r < copy_rows, c < copy_cols
          readable == copy_cols = 0 \/ \A r \in 1..copy_rows :
                         r <= Len(v.grid) /\ copy_cols <= Len(v.grid[r])
          new_grid == [r \in 1..rows |-> [c \in 1..cols |->
                         IF r <= copy_rows /\ c <= copy_cols
                         THEN v.grid[r][c] ELSE DefaultCell]]
      IN IF ~readable THEN Panic(v)
         ELSE [v EXCEPT !.grid = new_grid,
                        !.cols = cols,
                        !.rows = rows,
                        !.scroll_top = 0,
                        !.scroll_bottom = rows,
                        !.cursor.x = Min(@, SatSub(cols, 1)),
                        !.cursor.y = Min(@, SatSub(rows, 1))]

set_scroll_offset(v, offset) ==
    [v EXCEPT !.scroll_offset = Min(offset, Len(v.scrollback))]

\* std::mem::take(&mut self.response_queue): the VT afterwards
take_responses(v) == [v EXCEPT !.response_queue = <<>>]

-----------------------------------------------------------------------------
(* scrolling *)

\* a scroll_up whose full scrollback drops the row just pushed (pop) and not
\* the oldest one (remove(0))
scroll_up_drops_newest(v) ==
    IF v.rows = 0 \/ v.scroll_top >= v.scroll_bottom THEN v
    ELSE IF v.scroll_top >= Len(v.grid) THEN Panic(v)
    ELSE
      LET g1 == RemoveAt(v.grid, v.scroll_top)
          pushed == Append(v.scrollback, v.grid[v.scroll_top + 1])
          sb1 == IF v.scroll_top # 0 THEN v.scrollback
                 ELSE IF Len(pushed) > MAX_SCROLLBACK
                 THEN SubSeq(pushed, 1, MAX_SCROLLBACK) ELSE pushed
      IN [v EXCEPT !.grid = InsertAt(g1, Min(v.scroll_bottom - 1, Len(g1)), make_row(v)),
                   !.scrollback = sb1]

scroll_up(v) ==
    IF v.rows = 0 \/ v.scroll_top >= v.scroll_bottom THEN v
    ELSE IF v.scroll_top >= Len(v.grid) THEN Panic(v)
    ELSE
      LET removed == v.grid[v.scroll_top + 1]
          g1 == RemoveAt(v.grid, v.scroll_top)
          sb1 == IF v.scroll_top = 0
                 THEN LET pushed == Append(v.scrollback, removed)
                      IN IF Len(pushed) > MAX_SCROLLBACK
                         THEN RemoveAt(pushed, 0) ELSE pushed
                 ELSE v.scrollback
          insert_pos == Min(v.scroll_bottom - 1, Len(g1))
      IN [v EXCEPT !.grid = InsertAt(g1, insert_pos, make_row(v)),
                   !.scrollback = sb1]

scroll_down(v) ==
    IF v.rows = 0 \/ v.scroll_top >= v.scroll_bottom THEN v
    ELSE IF Len(v.grid) = 0 THEN Panic(v)
    ELSE
      LET remove_pos == Min(v.scroll_bottom - 1, SatSub(Len(v.grid), 1))
          g1 == RemoveAt(v.grid, remove_pos)
      IN IF v.scroll_top > Len(g1) THEN Panic(v)
         ELSE [v EXCEPT !.grid = InsertAt(g1, v.scroll_top, make_row(v))]

\* SU: for _ in 0..n { self.scroll_up() }
RECURSIVE scroll_up_n(_, _)
scroll_up_n(v, n) ==
    IF n = 0 \/ v.panicked THEN v ELSE scroll_up_n(scroll_up(v), n - 1)

\* SD: for _ in 0..n { self.scroll_down() }
RECURSIVE scroll_down_n(_, _)
scroll_down_n(v, n) ==
    IF n = 0 \/ v.panicked THEN v ELSE scroll_down_n(scroll_down(v), n - 1)

-----------------------------------------------------------------------------
(* printing *)

\* unicode_width::UnicodeWidthChar::width of the code points of the model:
\* "WIDE" is an East Asian wide character, "COMB" a combining mark
char_width(ch) == IF ch = "WIDE" THEN 2 ELSE IF ch = "COMB" THEN 0 ELSE 1

\* put_char, zero-width branch: merge into the previous cell
put_zero_width(v, ch) ==
    IF v.cursor.x > 0 /\ v.cursor.y < v.rows
    THEN LET y == v.cursor.y
             prev_x == v.cursor.x - 1
         IN IF ~CellOK(v, y, prev_x) THEN Panic(v)
            ELSE IF v.grid[y + 1][prev_x + 1].ch = <<>> /\ prev_x > 0
            THEN [v EXCEPT !.grid[y + 1][prev_x].ch = Append(@, ch)]
            ELSE [v EXCEPT !.grid[y + 1][prev_x + 1].ch = Append(@, ch)]
    ELSE v

\* put_char, "Line wrap" block: after the wrap, a cursor below the last row
\* scrolls the screen up
put_wrap_scroll(v) ==
    IF v.panicked THEN v ELSE [v EXCEPT !.cursor.y = v.rows - 1]

put_wrap(v) ==
    IF v.cursor.x >= v.cols
    THEN IF v.cursor.y + 1 >= v.rows
         THEN put_wrap_scroll(scroll_up([v EXCEPT !.cursor.x = 0, !.cursor.y = @ + 1]))
         ELSE [v EXCEPT !.cursor.x = 0, !.cursor.y = @ + 1]
    ELSE v

\* put_char: self.grid[cursor.y][cursor.x] = Cell { ch, style }, when the
\* cursor is inside the screen
put_cell(v, ch) ==
    IF v.panicked THEN v
    ELSE IF v.cursor.y < v.rows /\ v.cursor.x < v.cols
    THEN SetCell(v, v.cursor.y, v.cursor.x, [ch |-> ch, style |-> v.current_style])
    ELSE v

\* put_char: self.cursor.x += 1
put_advance(v) == IF v.panicked THEN v ELSE [v EXCEPT !.cursor.x = @ + 1]

\* put_char, "Handle wide characters": the continuation cell
put_continuation(v, w) ==
    IF ~v.panicked /\ w = 2 /\ v.cursor.x < v.cols
    THEN put_advance(SetCell(v, v.cursor.y, v.cursor.x,
                             [ch |-> <<>>, style |-> v.current_style]))
    ELSE v

put_char(v, ch) ==
    IF char_width(ch) = 0 THEN put_zero_width(v, ch)
    ELSE put_continuation(put_advance(put_cell(put_wrap(v), <<ch>>)), char_width(ch))

-----------------------------------------------------------------------------
(* erasing, inserting and deleting *)

erase_in_display(v, mode) ==
    CASE mode = 0 ->
           LET v1 == EraseCells(v, v.cursor.y, v.cursor.x, v.cols)
           IN IF v1.panicked THEN v1 ELSE EraseRows(v1, v.cursor.y + 1, v.rows)
      [] mode = 1 ->
           LET v1 == EraseRows(v, 0, v.cursor.y)
           IN IF v1.panicked THEN v1
              ELSE EraseCells(v1, v.cursor.y, 0,
                              Min(v.cursor.x, SatSub(v.cols, 1)) + 1)
      [] mode \in {2, 3} -> EraseRows(v, 0, v.rows)
      [] OTHER -> v

erase_in_line(v, mode) ==
    IF v.cursor.y >= v.rows THEN v
    ELSE CASE mode = 0 -> EraseCells(v, v.cursor.y, v.cursor.x, v.cols)
           [] mode = 1 -> EraseCells(v, v.cursor.y, 0,
                                     Min(v.cursor.x, SatSub(v.cols, 1)) + 1)
           [] mode = 2 -> IF v.cursor.y < Len(v.grid)
                          THEN [v EXCEPT !.grid[v.cursor.y + 1] = make_row(v)]
                          ELSE Panic(v)
           [] OTHER -> v

\* one iteration of the loop of insert_lines; bottom is computed before the loop
insert_line(v, bottom) ==
    IF v.cursor.y >= v.scroll_top /\ v.cursor.y < bottom /\ bottom > 0
    THEN LET remove_pos == Min(bottom - 1, SatSub(Len(v.grid), 1))
         IN IF remove_pos >= Len(v.grid) THEN Panic(v)
            ELSE LET g1 == RemoveAt(v.grid, remove_pos)
                 IN IF v.cursor.y > Len(g1) THEN Panic(v)
                    ELSE [v EXCEPT !.grid = InsertAt(g1, v.cursor.y, make_row(v))]
    ELSE v

RECURSIVE insert_lines_loop(_, _, _)
insert_lines_loop(v, bottom, n) ==
    IF n = 0 \/ v.panicked THEN v
    ELSE insert_lines_loop(insert_line(v, bottom), bottom, n - 1)

insert_lines(v, count) ==
    insert_lines_loop(v, Min(v.scroll_bottom, Len(v.grid)), count)

\* one iteration of the loop of delete_lines
delete_line(v, bottom) ==
    IF v.cursor.y >= v.scroll_top /\ v.cursor.y < bottom
    THEN IF v.cursor.y >= Len(v.grid) THEN Panic(v)
         ELSE LET g1 == RemoveAt(v.grid, v.cursor.y)
                  insert_pos == Min(bottom - 1, Len(g1))
              IN [v EXCEPT !.grid = InsertAt(g1, insert_pos, make_row(v))]
    ELSE v

RECURSIVE delete_lines_loop(_, _, _)
delete_lines_loop(v, bottom, n) ==
    IF n = 0 \/ v.panicked THEN v
    ELSE delete_lines_loop(delete_line(v, bottom), bottom, n - 1)

delete_lines(v, count) ==
    delete_lines_loop(v, Min(v.scroll_bottom, Len(v.grid)), count)

\* one iteration of the loop of delete_chars on a row
delete_char_row(row, x) ==
    IF x < Len(row) THEN Append(RemoveAt(row, x), DefaultCell) ELSE row

RECURSIVE delete_chars_row(_, _, _)
delete_chars_row(row, x, n) ==
    IF n = 0 THEN row ELSE delete_chars_row(delete_char_row(row, x), x, n - 1)

delete_chars(v, count) ==
    IF v.cursor.y >= v.rows THEN v
    ELSE IF v.cursor.y >= Len(v.grid) THEN Panic(v)
    ELSE [v EXCEPT !.grid[v.cursor.y + 1] =
             delete_chars_row(@, v.cursor.x, count)]

\* one iteration of the loop of insert_chars on a row
insert_char_row(row, x, cols) ==
    IF x < Len(row)
    THEN LET r1 == InsertAt(row, x, DefaultCell)
         IN SubSeq(r1, 1, Min(Len(r1), cols))
    ELSE row

RECURSIVE insert_chars_row(_, _, _, _)
insert_chars_row(row, x, cols, n) ==
    IF n = 0 THEN row
    ELSE insert_chars_row(insert_char_row(row, x, cols), x, cols, n - 1)

insert_chars(v, count) ==
    IF v.cursor.y >= v.rows THEN v
    ELSE IF v.cursor.y >= Len(v.grid) THEN Panic(v)
    ELSE [v EXCEPT !.grid[v.cursor.y + 1] =
             insert_chars_row(@, v.cursor.x, v.cols, count)]

\* ECH: grid[y][x + i] = default for every i < count with x + i < cols
erase_chars(v, count) ==
    IF v.cursor.y >= v.rows THEN v
    ELSE EraseCells(v, v.cursor.y, v.cursor.x, Min(v.cursor.x + count, v.cols))

-----------------------------------------------------------------------------
(* alternate screen *)

enter_alternate_screen(v) ==
    [v EXCEPT !.saved_grid = Some(v.grid),
              !.saved_scrollback = Some(v.scrollback),
              !.saved_main_cursor = Some(v.cursor),
              !.grid = make_grid(v.cols, v.rows),
              !.scrollback = <<>>,
              !.cursor = DefaultCursor]

leave_alternate_screen(v) ==
    [v EXCEPT !.grid = IF IsSome(v.saved_grid) THEN Unwrap(v.saved_grid) ELSE @,
              !.saved_grid = None,
              !.scrollback = IF IsSome(v.saved_scrollback)
                             THEN Unwrap(v.saved_scrollback) ELSE @,
              !.saved_scrollback = None,
              !.cursor = IF IsSome(v.saved_main_cursor)
                         THEN Unwrap(v.saved_main_cursor) ELSE @,
              !.saved_main_cursor = None]

-----------------------------------------------------------------------------
(* SGR *)

\* Style::add_modifier / Style::remove_modifier / fg / bg of ratatui
add_modifier(st, m) == [st EXCEPT !.sub = @ \ {m}, !.add = @ \cup {m}]
remove_modifier(st, m) == [st EXCEPT !.add = @ \ {m}, !.sub = @ \cup {m}]
set_fg(st, c) == [st EXCEPT !.fg = Some(c)]
set_bg(st, c) == [st EXCEPT !.bg = Some(c)]

\* the colours of codes 30..37 / 40..47 and 90..97 / 100..107, by last digit
NamedColor(i) ==
    <<"Black", "Red", "Green", "Yellow", "Blue", "Magenta", "Cyan", "White">>[i + 1]
BrightColor(i) ==
    <<"DarkGray", "LightRed", "LightGreen", "LightYellow", "LightBlue",
      "LightMagenta", "LightCyan", "White">>[i + 1]

\* p[i] when the iterator still has an element, as u8; 0 otherwise
SgrByteOr0(p, i) == IF i <= Len(p) THEN p[i] % 256 ELSE 0

\* the 38 / 48 arm: the colour it sets (None when it sets none) after the
\* code at index i
sgr_extended(p, i) ==
    IF i + 1 > Len(p) THEN None
    ELSE IF p[i + 1] = 5
         THEN IF i + 2 <= Len(p) THEN Some(<<"Indexed", p[i + 2] % 256>>) ELSE None
    ELSE IF p[i + 1] = 2
         THEN Some(<<"Rgb", SgrByteOr0(p, i + 2), SgrByteOr0(p, i + 3),
                     SgrByteOr0(p, i + 4)>>)
    ELSE None

\* how many parameters the 38 / 48 arm at index i takes from the iterator
sgr_extended_len(p, i) ==
    IF i + 1 > Len(p) THEN 0
    ELSE IF p[i + 1] = 5 THEN 2
    ELSE IF p[i + 1] = 2 THEN 4
    ELSE 1

\* one arm of the match of parse_sgr
sgr_code(st, p, i) ==
    LET code == p[i] IN
    CASE code = 0 -> DefaultStyle
      [] code = 1 -> add_modifier(st, "BOLD")
      [] code = 2 -> add_modifier(st, "DIM")
      [] code = 3 -> add_modifier(st, "ITALIC")
      [] code = 4 -> add_modifier(st, "UNDERLINED")
      [] code = 7 -> add_modifier(st, "REVERSED")
      [] code = 9 -> add_modifier(st, "CROSSED_OUT")
      [] code = 22 -> remove_modifier(remove_modifier(st, "BOLD"), "DIM")
      [] code = 23 -> remove_modifier(st, "ITALIC")
      [] code = 24 -> remove_modifier(st, "UNDERLINED")
      [] code = 27 -> remove_modifier(st, "REVERSED")
      [] code = 29 -> remove_modifier(st, "CROSSED_OUT")
      [] code \in 30..37 -> set_fg(st, <<NamedColor(code - 30)>>)
      [] code = 38 -> LET c == sgr_extended(p, i)
                      IN IF IsSome(c) THEN set_fg(st, Unwrap(c)) ELSE st
      [] code = 39 -> set_fg(st, <<"Reset">>)
      [] code \in 90..97 -> set_fg(st, <<BrightColor(code - 90)>>)
      [] code \in 40..47 -> set_bg(st, <<NamedColor(code - 40)>>)
      [] code = 48 -> LET c == sgr_extended(p, i)
                      IN IF IsSome(c) THEN set_bg(st, Unwrap(c)) ELSE st
      [] code = 49 -> set_bg(st, <<"Reset">>)
      [] code \in 100..107 -> set_bg(st, <<BrightColor(code - 100)>>)
      [] OTHER -> st

RECURSIVE sgr_loop(_, _, _)
sgr_loop(st, p, i) ==
    IF i > Len(p) THEN st
    ELSE sgr_loop(sgr_code(st, p, i), p,
                  i + 1 + (IF p[i] \in {38, 48} THEN sgr_extended_len(p, i) ELSE 0))

parse_sgr(v, p) == [v EXCEPT !.current_style = sgr_loop(@, p, 1)]

-----------------------------------------------------------------------------
(* Perform: print, execute *)

print(v, c) == put_char(v, c)

\* IND and LF/VT/FF: scroll at the bottom of the region, else move down
index_down(v) ==
    IF v.cursor.y + 1 >= v.scroll_bottom
    THEN scroll_up(v)
    ELSE [v EXCEPT !.cursor.y = @ + 1]

execute(v, byte) ==
    CASE byte = "BS" -> [v EXCEPT !.cursor.x = SatSub(@, 1)]
      [] byte = "HT" ->
           LET tab_stop == ((v.cursor.x \div 8) + 1) * 8
           IN [v EXCEPT !.cursor.x = Min(tab_stop, SatSub(v.cols, 1))]
      [] byte \in {"LF", "VT", "FF"} -> index_down(v)
      [] byte = "CR" -> [v EXCEPT !.cursor.x = 0]
      [] OTHER -> v

-----------------------------------------------------------------------------
(* Perform: csi_dispatch *)

Digits == <<"0", "1", "2", "3", "4", "5", "6", "7", "8", "9">>

\* format!("{}", n): the decimal digits of n, most significant first
RECURSIVE ToDecimal(_)
ToDecimal(n) ==
    IF n < 10 THEN <<Digits[n + 1]>>
    ELSE Append(ToDecimal(n \div 10), Digits[(n % 10) + 1])

\* p.first().copied().unwrap_or(1).max(1)
FirstOr1(p) == IF Len(p) >= 1 THEN Max(p[1], 1) ELSE 1
\* p.get(1).copied().unwrap_or(1).max(1)
SecondOr1(p) == IF Len(p) >= 2 THEN Max(p[2], 1) ELSE 1
\* p.first().copied().unwrap_or(0)
FirstOr0(p) == IF Len(p) >= 1 THEN p[1] ELSE 0

\* one code of a DECSET / DECRST sequence
private_mode(v, code, set) ==
    CASE code = 25 -> [v EXCEPT !.cursor.visible = set]
      [] code = 1049 -> IF set THEN enter_alternate_screen(v)
                        ELSE leave_alternate_screen(v)
      [] code \in {1047, 47} -> IF set THEN enter_alternate_screen(v)
                                ELSE leave_alternate_screen(v)
      [] OTHER -> v

RECURSIVE private_modes(_, _, _, _)
private_modes(v, p, i, set) ==
    IF i > Len(p) THEN v
    ELSE private_modes(private_mode(v, p[i], set), p, i + 1, set)

\* DECSTBM
set_scroll_region(v, p) ==
    LET top == FirstOr1(p) - 1
        bottom == IF Len(p) >= 2 THEN p[2] ELSE v.rows % (U16_MAX + 1)
        st == Min(top, v.rows)
    IN [v EXCEPT !.scroll_top = st,
                 !.scroll_bottom = Max(Min(bottom, v.rows), st + 1),
                 !.cursor.x = 0,
                 !.cursor.y = 0]

\* DSR
\* a cursor position report that sends the 0-based cursor
device_status_report_0based(v, p) ==
    IF FirstOr0(p) = 5
    THEN [v EXCEPT !.response_queue = Append(@, <<"ESC", "[", "0", "n">>)]
    ELSE IF FirstOr0(p) = 6
    THEN [v EXCEPT !.response_queue =
             Append(@, <<"ESC", "[">> \o ToDecimal(v.cursor.y) \o <<";">>
                         \o ToDecimal(v.cursor.x) \o <<"R">>)]
    ELSE v

device_status_report(v, p) ==
    LET code == FirstOr0(p) IN
    CASE code = 5 ->
           [v EXCEPT !.response_queue = Append(@, <<"ESC", "[", "0", "n">>)]
      [] code = 6 ->
           [v EXCEPT !.response_queue =
               Append(@, <<"ESC", "[">> \o ToDecimal(v.cursor.y + 1) \o <<";">>
                           \o ToDecimal(v.cursor.x + 1) \o <<"R">>)]
      [] OTHER -> v

restore_cursor(v) ==
    IF IsSome(v.saved_cursor) THEN [v EXCEPT !.cursor = Unwrap(v.saved_cursor)]
    ELSE v

csi_dispatch(v, p, intermediates, action) ==
    LET n == FirstOr1(p)
        last_row == SatSub(v.rows, 1)
        last_col == SatSub(v.cols, 1)
    IN
    CASE action \in {"H", "f"} ->
           [v EXCEPT !.cursor.y = Min(FirstOr1(p) - 1, last_row),
                     !.cursor.x = Min(SecondOr1(p) - 1, last_col)]
      [] action = "A" -> [v EXCEPT !.cursor.y = SatSub(@, n)]
      [] action = "B" -> [v EXCEPT !.cursor.y = Min(@ + n, last_row)]
      [] action = "C" -> [v EXCEPT !.cursor.x = Min(@ + n, last_col)]
      [] action = "D" -> [v EXCEPT !.cursor.x = SatSub(@, n)]
      [] action = "E" -> [v EXCEPT !.cursor.y = Min(@ + n, last_row),
                                   !.cursor.x = 0]
      [] action = "F" -> [v EXCEPT !.cursor.y = SatSub(@, n), !.cursor.x = 0]
      [] action = "G" -> [v EXCEPT !.cursor.x = Min(n - 1, last_col)]
      [] action = "J" -> erase_in_display(v, FirstOr0(p))
      [] action = "K" -> erase_in_line(v, FirstOr0(p))
      [] action = "L" -> insert_lines(v, n)
      [] action = "M" -> delete_lines(v, n)
      [] action = "P" -> delete_chars(v, n)
      [] action = "S" -> scroll_up_n(v, n)
      [] action = "T" -> scroll_down_n(v, n)
      [] action = "@" -> insert_chars(v, n)
      [] action = "X" -> erase_chars(v, n)
      [] action = "d" -> [v EXCEPT !.cursor.y = Min(n - 1, last_row)]
      [] action = "m" -> parse_sgr(v, p)
      [] action \in {"h", "l"} ->
           IF intermediates = <<"?">>
           THEN private_modes(v, p, 1, action = "h")
           ELSE v
      [] action = "s" -> [v EXCEPT !.saved_cursor = Some(v.cursor)]
      [] action = "u" -> restore_cursor(v)
      [] action = "r" -> IF intermediates = <<>> THEN set_scroll_region(v, p)
                         ELSE v
      [] action = "n" -> device_status_report(v, p)
      [] OTHER -> v

-----------------------------------------------------------------------------
(* Perform: esc_dispatch *)

reverse_index(v) ==
    IF v.cursor.y <= v.scroll_top
    THEN scroll_down(v)
    ELSE [v EXCEPT !.cursor.y = @ - 1]

\* RIS: *self = Self::new(cols, rows), keeping what self.parser held
full_reset(v) == [New(v.cols, v.rows) EXCEPT !.parser = v.parser]

esc_dispatch(v, byte) ==
    CASE byte = "D" -> index_down(v)
      [] byte = "M" -> reverse_index(v)
      [] byte = "7" -> [v EXCEPT !.saved_cursor = Some(v.cursor)]
      [] byte = "8" -> restore_cursor(v)
      [] byte = "c" -> full_reset(v)
      [] OTHER -> v

-----------------------------------------------------------------------------
(* Perform: osc_dispatch *)

\* bytes a code point takes in UTF-8
ByteLen(c) == IF c = "WIDE" THEN 3 ELSE IF c = "COMB" THEN 2 ELSE 1

RECURSIVE StrByteLen(_)
StrByteLen(str) == IF str = <<>> THEN 0 ELSE ByteLen(Head(str)) + StrByteLen(Tail(str))

HexDigits ==
    <<"0", "1", "2", "3", "4", "5", "6", "7", "8", "9", "A", "B", "C", "D", "E", "F">>
IsHex(c) == \E i \in 1..16 : HexDigits[i] = c
HexVal(c) == (CHOOSE i \in 1..16 : HexDigits[i] = c) - 1

\* the character of a decoded byte: the ASCII bytes the model reads, and a
\* name made of the byte's value for every other byte
ByteChar(n) ==
    CASE n = 32 -> " "
      [] n = 47 -> "/"
      [] n = 65 -> "A"
      [] n = 66 -> "B"
      [] OTHER -> "0x" \o ToString(n)

\* percent_decode; the result is <<ok, text>>, ok = FALSE when slicing
\* input[i + 1..i + 3] is not on a character boundary (a panic)
RECURSIVE percent_decode(_)
percent_decode(input) ==
    IF input = <<>> THEN <<TRUE, <<>>>>
    ELSE LET rest == Tail(input)
             literal == LET r == percent_decode(rest)
                        IN <<r[1], <<Head(input)>> \o r[2]>>
         IN IF Head(input) = "%" /\ StrByteLen(rest) >= 2
            THEN IF ByteLen(rest[1]) = 1 /\ ByteLen(rest[2]) = 1
                 THEN IF IsHex(rest[1]) /\ IsHex(rest[2])
                      THEN LET r == percent_decode(Tail(Tail(rest)))
                           IN <<r[1], <<ByteChar(16 * HexVal(rest[1]) + HexVal(rest[2]))>>
                                        \o r[2]>>
                      \* u8::from_str_radix takes a leading '+' sign
                      ELSE IF rest[1] = "+" /\ IsHex(rest[2])
                      THEN LET r == percent_decode(Tail(Tail(rest)))
                           IN <<r[1], <<ByteChar(HexVal(rest[2]))>> \o r[2]>>
                      ELSE literal
                 ELSE IF ByteLen(rest[1]) = 2 THEN literal
                 ELSE <<FALSE, <<>>>>
            ELSE literal

\* the OSC payload cut at every ';' (the params vte hands to osc_dispatch)
RECURSIVE SplitSemi(_, _)
SplitSemi(str, cur) ==
    IF str = <<>> THEN <<cur>>
    ELSE IF Head(str) = ";" THEN <<cur>> \o SplitSemi(Tail(str), <<>>)
    ELSE SplitSemi(Tail(str), Append(cur, Head(str)))

\* s.find('/').map(|i| &s[i..])
RECURSIVE FromFirstSlash(_)
FromFirstSlash(str) ==
    IF str = <<>> THEN None
    ELSE IF Head(str) = "/" THEN Some(str)
    ELSE FromFirstSlash(Tail(str))

FilePrefix == <<"f", "i", "l", "e", ":", "/", "/">>

osc_dispatch(v, params) ==
    IF Len(params) >= 2 /\ params[1] = <<"7">>
    THEN LET uri == params[2]
         IN IF Len(uri) >= Len(FilePrefix) /\ SubSeq(uri, 1, Len(FilePrefix)) = FilePrefix
            THEN LET path == FromFirstSlash(SubSeq(uri, Len(FilePrefix) + 1, Len(uri)))
                 IN IF IsSome(path)
                    THEN LET d == percent_decode(Unwrap(path))
                         IN IF d[1] THEN [v EXCEPT !.reported_cwd = Some(d[2])]
                            ELSE Panic(v)
                    ELSE v
            ELSE v
    ELSE v

-----------------------------------------------------------------------------
(* The byte parser (vte::Parser::advance), one byte at a time *)

C0Controls == {"BEL", "BS", "HT", "LF", "VT", "FF", "CR"}
DigitBytes == {"0", "1", "2", "3", "4", "5", "6", "7", "8", "9"}
\* 0x3C..0x3F
PrivateMarkers == {"<", "=", ">", "?"}
\* 0x20..0x2F
IntermediateBytes ==
    {" ", "!", "#", "$", "%", "&", "'", "(", ")", "*", "+", ",", "-", ".", "/"}
\* code points outside ASCII
MultiByte == {"WIDE", "COMB"}
\* 0x40..0x7E: every other one-character byte
IsFinal(b) ==
    b \notin C0Controls \cup DigitBytes \cup PrivateMarkers \cup IntermediateBytes
             \cup MultiByte \cup {"ESC", ";", ":"}

DigitVal(b) == (CHOOSE i \in 1..10 : Digits[i] = b) - 1

\* the parser in `state` with nothing collected: what was collected is
\* cleared when a sequence starts and is not read after it was dispatched
ClearedParser(state) ==
    [state |-> state, params |-> <<>>, param |-> 0,
     inter |-> <<>>, ignoring |-> FALSE, osc |-> <<>>]

\* a digit or ';' in a CSI sequence
csi_param_byte(ps, b) ==
    IF b = ";"
    THEN [ps EXCEPT !.state = "csi_param", !.params = Append(@, ps.param), !.param = 0]
    ELSE [ps EXCEPT !.state = "csi_param",
                    !.param = Min(@ * 10 + DigitVal(b), U16_MAX)]

\* parser ps and terminal v after one byte b; the result is [p, v]
advance_byte(ps, v, b) ==
    LET stay == [p |-> ps, v |-> v]
        goto(state) == [p |-> [ps EXCEPT !.state = state], v |-> v]
    IN
    IF b = "ESC"
    THEN IF ps.state = "osc_string"
         THEN [p |-> ClearedParser("escape"), v |-> osc_dispatch(v, SplitSemi(ps.osc, <<>>))]
         ELSE [p |-> ClearedParser("escape"), v |-> v]
    ELSE CASE ps.state = "ground" ->
                IF b \in C0Controls THEN [p |-> ps, v |-> execute(v, b)]
                ELSE [p |-> ps, v |-> print(v, b)]
           [] ps.state = "escape" ->
                IF b \in C0Controls THEN [p |-> ps, v |-> execute(v, b)]
                ELSE IF b \in MultiByte THEN stay
                ELSE IF b \in IntermediateBytes
                THEN [p |-> [ps EXCEPT !.state = "escape_intermediate",
                                       !.inter = Append(@, b)], v |-> v]
                ELSE IF b = "[" THEN goto("csi_entry")
                ELSE IF b = "]" THEN goto("osc_string")
                ELSE IF b \in {"P", "X", "^", "_"} THEN goto("string_ignore")
                ELSE [p |-> ClearedParser("ground"), v |-> esc_dispatch(v, b)]
           [] ps.state = "escape_intermediate" ->
                IF b \in C0Controls THEN [p |-> ps, v |-> execute(v, b)]
                ELSE IF b \in MultiByte THEN stay
                ELSE IF b \in IntermediateBytes
                THEN [p |-> [ps EXCEPT !.inter = Append(@, b)], v |-> v]
                ELSE [p |-> ClearedParser("ground"), v |-> esc_dispatch(v, b)]
           [] ps.state \in {"csi_entry", "csi_param", "csi_intermediate"} ->
                IF b \in C0Controls THEN [p |-> ps, v |-> execute(v, b)]
                ELSE IF b \in MultiByte THEN stay
                ELSE IF IsFinal(b)
                THEN [p |-> ClearedParser("ground"),
                      v |-> csi_dispatch(v, Append(ps.params, ps.param), ps.inter, b)]
                ELSE IF b \in IntermediateBytes
                THEN [p |-> [ps EXCEPT !.state = "csi_intermediate",
                                       !.inter = Append(@, b)], v |-> v]
                ELSE IF ps.state = "csi_intermediate" THEN goto("csi_ignore")
                ELSE IF b \in DigitBytes \cup {";"}
                THEN [p |-> csi_param_byte(ps, b), v |-> v]
                ELSE IF b = ":" THEN goto("csi_ignore")
                ELSE IF ps.state = "csi_entry"
                THEN [p |-> [ps EXCEPT !.state = "csi_param",
                                       !.inter = Append(@, b)], v |-> v]
                ELSE goto("csi_ignore")
           [] ps.state = "csi_ignore" ->
                IF b \in C0Controls THEN [p |-> ps, v |-> execute(v, b)]
                ELSE IF IsFinal(b) THEN [p |-> ClearedParser("ground"), v |-> v]
                ELSE stay
           [] ps.state = "osc_string" ->
                IF b = "BEL"
                THEN [p |-> ClearedParser("ground"),
                      v |-> osc_dispatch(v, SplitSemi(ps.osc, <<>>))]
                ELSE IF b \in C0Controls THEN stay
                ELSE [p |-> [ps EXCEPT !.osc = Append(@, b)], v |-> v]
           [] OTHER -> stay

\* parser.advance(self, bytes); st holds the parser and the terminal
RECURSIVE advance(_, _)
advance(st, bytes) ==
    IF bytes = <<>> \/ st.v.panicked THEN st
    ELSE advance(advance_byte(st.p, st.v, Head(bytes)), Tail(bytes))

\* self.parser = Some(parser)
store_parser(st) ==
    IF st.v.panicked THEN st.v ELSE [st.v EXCEPT !.parser = Some(st.p)]

\* a feed that starts every call with a new parser and so forgets the
\* sequence the previous call ended in
feed_with_new_parser(v, bytes) ==
    store_parser(advance([p |-> NewParser, v |-> [v EXCEPT !.parser = None]], bytes))

\* VirtualTerminal::feed
feed(v, bytes) ==
    store_parser(advance([p |-> IF IsSome(v.parser) THEN Unwrap(v.parser) ELSE NewParser,
                          v |-> [v EXCEPT !.parser = None]],
                         bytes))

-----------------------------------------------------------------------------
(* The byte sequences the child writes *)

CSI(body) == <<"ESC", "[">> \o body
CSI1(n, final) == CSI(ToDecimal(n) \o <<final>>)
CSI2(n, m, final) == CSI(ToDecimal(n) \o <<";">> \o ToDecimal(m) \o <<final>>)
DECSET(n) == CSI(<<"?">> \o ToDecimal(n) \o <<"h">>)
DECRST(n) == CSI(<<"?">> \o ToDecimal(n) \o <<"l">>)

ENTER_ALT == DECSET(1049)
LEAVE_ALT == DECRST(1049)
RIS == <<"ESC", "c">>
DSR5 == CSI1(5, "n")
DSR6 == CSI1(6, "n")

\* terminal sizes (cols, rows) the terminal is created with and resized to
Dims == {<<2, 2>>, <<1, 2>>}

\* a scroll-region parameter beyond every terminal height of the model
BigParam == 9

-----------------------------------------------------------------------------
(* The state machine: one terminal, fed and resized *)

\* VirtualTerminal::new(cols, rows) with a size of dims
InitOf(dims) ==
    /\ \E d \in dims : vt = New(d[1], d[2])
    /\ hist = [op |-> "new"]
    /\ NoProcess

\* the exploration stops scrolling and querying at its bounds
WithinBounds(v) ==
    /\ Len(v.scrollback) <= MaxScroll
    /\ Len(v.response_queue) <= MaxResp

\* vt.feed(bytes) with one of chunks
FeedOf(chunks) ==
    /\ ~vt.panicked
    /\ \E b \in chunks :
         /\ vt' = feed(vt, b)
         /\ WithinBounds(vt')
    /\ hist' = [op |-> "feed"]
    /\ UNCHANGED procvars

\* vt.resize(cols, rows) to a size of dims
ResizeTo(dims) ==
    /\ ~vt.panicked
    /\ \E d \in dims : vt' = resize(vt, d[1], d[2])
    /\ hist' = [op |-> "resize"]
    /\ UNCHANGED procvars

\* vt.take_responses()
TakeResponses ==
    /\ ~vt.panicked
    /\ vt.response_queue # <<>>
    /\ vt' = take_responses(vt)
    /\ hist' = [op |-> "take_responses"]
    /\ UNCHANGED procvars

Init == InitOf(Dims)

\* text, scroll regions of every shape, scrolling, cursor positioning and
\* cursor save / restore
Chunks ==
    {<<"A">>, <<"LF">>, <<"CR">>}
        \cup {CSI2(2, 1, "r"), CSI2(1, 0, "r"), CSI1(BigParam, "r"), CSI(<<"S">>)}
        \cup {CSI2(2, 2, "H"), <<"ESC", "7">>, <<"ESC", "8">>}

Feed == FeedOf(Chunks)

Resize == ResizeTo(Dims)

Next == Feed \/ Resize

Spec == Init /\ [][Next]_vars

-----------------------------------------------------------------------------
(* SpecScreen: the alternate screen, full reset and resize *)

ScreenDims == {<<1, 2>>, <<2, 1>>}

ScreenInit == InitOf(ScreenDims)

ScreenChunks == {<<"A">>, <<"LF">>, ENTER_ALT, LEAVE_ALT, RIS}

ScreenFeed == FeedOf(ScreenChunks)

ScreenResize == ResizeTo(ScreenDims)

ScreenNext == ScreenFeed \/ ScreenResize

SpecScreen == ScreenInit /\ [][ScreenNext]_vars

-----------------------------------------------------------------------------
(* SpecReport: cursor positioning, device status reports and the queue of
   replies, on a terminal whose rows and columns take two digits *)

ReportDims == {<<12, 11>>, <<2, 2>>}

ReportInit == InitOf(ReportDims)

ReportChunks ==
    {CSI2(11, 12, "H"), CSI2(12, 13, "H"), CSI2(0, 0, "H"), CSI(<<"H">>),
     CSI1(2, "H"), CSI(<<";", "2", "H">>), CSI2(10, 9, "f"),
     DSR5, DSR6, RIS}

ReportFeed == FeedOf(ReportChunks)

ReportNext == ReportFeed \/ TakeResponses

SpecReport == ReportInit /\ [][ReportNext]_vars

-----------------------------------------------------------------------------
(* SpecSplit: the reader thread hands the child's output to feed in pieces
   that end anywhere, also inside an escape sequence *)

OSC7 == <<"ESC", "]", "7", ";", "f", "i", "l", "e", ":", "/", "/", "h", "/", "d", "BEL">>

\* what the child writes
SplitStreams ==
    {CSI2(1, 2, "H") \o <<"A">>, CSI1(1, "m"), OSC7, <<"A", "LF">> \o RIS, DSR6,
     CSI2(2, 2, "r")}

SplitDims == {<<2, 2>>}

SplitInit ==
    /\ \E d \in SplitDims : vt = New(d[1], d[2])
    /\ hist = [op |-> "new", rest |-> <<>>]
    /\ NoProcess

\* one read() of the reader thread: the first k bytes of what is pending
ReadOf(pending) ==
    \E k \in 1..Len(pending) :
        /\ vt' = feed(vt, SubSeq(pending, 1, k))
        /\ Len(vt'.response_queue) <= MaxPending
        /\ Len(vt'.scrollback) <= MaxScroll
        /\ hist' = [op |-> "feed", rest |-> SubSeq(pending, k + 1, Len(pending))]
        /\ UNCHANGED procvars

\* the child writes a stream; the reader gets its first bytes
SplitStart ==
    /\ ~vt.panicked
    /\ hist.rest = <<>>
    /\ \E b \in SplitStreams : ReadOf(b)

\* the reader gets more of the stream
SplitContinue ==
    /\ ~vt.panicked
    /\ hist.rest # <<>>
    /\ ReadOf(hist.rest)

SplitTake ==
    /\ ~vt.panicked
    /\ vt.response_queue # <<>>
    /\ vt' = take_responses(vt)
    /\ hist' = [hist EXCEPT !.op = "take_responses"]
    /\ UNCHANGED procvars

SplitNext == SplitStart \/ SplitContinue \/ SplitTake

SpecSplit == SplitInit /\ [][SplitNext]_vars

-----------------------------------------------------------------------------
(* SpecScrollback: a terminal whose scrollback is one row short of
   MAX_SCROLLBACK *)

\* the n-th line the child wrote
Line(n) == <<"CR", IF n % 2 = 0 THEN "A" ELSE "B", "LF">>

\* the terminal after the child wrote lines lo, lo + 1, .., hi, each in a
\* feed of its own
RECURSIVE FeedLines(_, _, _)
FeedLines(v, lo, hi) ==
    IF v.panicked \/ lo > hi THEN v
    ELSE IF lo = hi THEN feed(v, Line(lo))
    ELSE FeedLines(FeedLines(v, lo, (lo + hi) \div 2), (lo + hi) \div 2 + 1, hi)

ScrollDims == {<<1, 2>>, <<1, 1>>}

ScrollInit ==
    /\ vt = FeedLines(New(1, 2), 1, MAX_SCROLLBACK)
    /\ hist = [op |-> "new", bytes |-> <<>>, full |-> FALSE, steps |-> 0]
    /\ NoProcess

ScrollChunks == {<<"A">>, <<"LF">>, CSI(<<"S">>), ENTER_ALT, LEAVE_ALT}

ScrollFeed ==
    /\ ~vt.panicked
    /\ hist.steps < MaxSteps
    /\ \E b \in ScrollChunks :
         /\ vt' = feed(vt, b)
         /\ hist' = [op |-> "feed", bytes |-> b,
                     full |-> Len(vt.scrollback) = MAX_SCROLLBACK,
                     steps |-> hist.steps + 1]
    /\ UNCHANGED procvars

ScrollResize ==
    /\ ~vt.panicked
    /\ hist.steps < MaxSteps
    /\ \E d \in ScrollDims : vt' = resize(vt, d[1], d[2])
    /\ hist' = [op |-> "resize", bytes |-> <<>>,
                full |-> Len(vt.scrollback) = MAX_SCROLLBACK,
                steps |-> hist.steps + 1]
    /\ UNCHANGED procvars

ScrollNext == ScrollFeed \/ ScrollResize

SpecScrollback == ScrollInit /\ [][ScrollNext]_vars

-----------------------------------------------------------------------------
(* SpecWide: wide glyphs, their continuation cells and the cell-level edits *)

WideDims == {<<3, 1>>, <<2, 1>>}

WideInit == InitOf(WideDims)

WideChunks ==
    {<<"WIDE">>, <<"A">>, <<"CR">>, CSI(<<"C">>),
     CSI(<<"P">>), CSI(<<"@">>), CSI(<<"X">>), CSI(<<"K">>)}

WideFeed == FeedOf(WideChunks)

WideResize == ResizeTo(WideDims)

WideNext == WideFeed \/ WideResize

SpecWide == WideInit /\ [][WideNext]_vars

-----------------------------------------------------------------------------
(* TerminalPane::tick: the tracker of the working directory. A path is its
   text, a sequence of characters; two paths are equal when their components
   are. *)

\* rows of the screen that tick scans, and the tick on which a path that is
\* not deeper than cwd is adopted
SCAN_ROWS == 8
REVERT_TICKS == 16

\* the text cut at every '/'
RECURSIVE SplitSlash(_, _)
SplitSlash(str, cur) ==
    IF str = <<>> THEN <<cur>>
    ELSE IF Head(str) = "/" THEN <<cur>> \o SplitSlash(Tail(str), <<>>)
    ELSE SplitSlash(Tail(str), Append(cur, Head(str)))

IsName(segment) == segment # <<>> /\ segment # <<".">>

\* Path::components(): the root of an absolute path, then its names
components(path) ==
    (IF path # <<>> /\ Head(path) = "/" THEN << <<"/">> >> ELSE <<>>)
        \o SelectSeq(SplitSlash(path, <<>>), IsName)

\* PathBuf == PathBuf
PathEq(p, q) == components(p) = components(q)

\* the directory the pane is started in, the home directory and the
\* directories of the file system
START_DIR == <<"/", "A", "/", "B">>
HOME_DIR == <<"/", "A">>
DirPaths ==
    {<<"/">>, <<"/", "A">>, <<"/", "B">>, <<"/", "A", "/", "B">>,
     <<"/", "A", "/", "A">>}

\* path.is_dir()
is_dir(path) == \E d \in DirPaths : PathEq(path, d)

\* char::is_alphanumeric() on the letters and digits of the model, or one
\* of / . - _ + @
Alphanumeric == {"A", "B", "a"} \cup {Digits[i] : i \in 1..Len(Digits)}
IsPathChar(c) == c \in Alphanumeric \cup {"/", ".", "-", "_", "+", "@"}

\* chars().take_while(is_path_char).collect()
RECURSIVE TakeWhilePath(_)
TakeWhilePath(str) ==
    IF str = <<>> \/ ~IsPathChar(Head(str)) THEN <<>>
    ELSE <<Head(str)>> \o TakeWhilePath(Tail(str))

\* str::trim_end_matches(c), str::trim_start_matches(c)
RECURSIVE TrimEnd(_, _)
TrimEnd(str, c) ==
    IF str = <<>> \/ str[Len(str)] # c THEN str
    ELSE TrimEnd(SubSeq(str, 1, Len(str) - 1), c)

RECURSIVE TrimStart(_, _)
TrimStart(str, c) ==
    IF str = <<>> \/ Head(str) # c THEN str ELSE TrimStart(Tail(str), c)

\* a cell that row_text shows as a space
IsBlank(cell) == cell.ch = <<>> \/ cell.ch = <<" ">>

\* the last column (1-based) of the row that is not blank, 0 in a blank row
LastInk(row) ==
    IF \A c \in 1..Len(row) : IsBlank(row[c]) THEN 0
    ELSE CHOOSE c \in 1..Len(row) :
             /\ ~IsBlank(row[c])
             /\ \A d \in (c + 1)..Len(row) : IsBlank(row[d])

\* the text of the cells of columns from..to (1-based)
RECURSIVE CellsText(_, _, _)
CellsText(row, from, to) ==
    IF from > to THEN <<>>
    ELSE (IF IsBlank(row[from]) THEN <<" ">> ELSE row[from].ch)
             \o CellsText(row, from + 1, to)

\* VirtualTerminal::row_text(row): the text of the row without the spaces
\* at its end
row_text(v, row) ==
    IF row >= v.rows THEN <<>>
    ELSE CellsText(v.grid[row + 1], 1, LastInk(v.grid[row + 1]))

\* str::find("~/"): what follows the first "~/", None without one
RECURSIVE AfterTilde(_)
AfterTilde(str) ==
    IF Len(str) < 2 THEN None
    ELSE IF str[1] = "~" /\ str[2] = "/" THEN Some(SubSeq(str, 3, Len(str)))
    ELSE AfterTilde(Tail(str))

\* PathBuf::join: an absolute `part` replaces the base
join(base, part) ==
    IF part # <<>> /\ Head(part) = "/" THEN part ELSE base \o <<"/">> \o part

\* the path that one row of the screen shows, None when it shows none
resolved(trimmed) ==
    IF IsSome(AfterTilde(trimmed))
    THEN IF TakeWhilePath(Unwrap(AfterTilde(trimmed))) = <<>> THEN None
         ELSE Some(join(HOME_DIR, TrimEnd(TakeWhilePath(Unwrap(AfterTilde(trimmed))), "/")))
    ELSE IF IsSome(FromFirstSlash(trimmed))
    THEN IF Len(TakeWhilePath(Unwrap(FromFirstSlash(trimmed)))) > 1
         THEN Some(TrimEnd(TakeWhilePath(Unwrap(FromFirstSlash(trimmed))), "/"))
         ELSE None
    ELSE None

\* if path.is_dir() { Some(path) }
dir_only(path) == IF IsSome(path) /\ is_dir(Unwrap(path)) THEN path ELSE None

\* the directory that row `row` shows, None when it shows none
row_path(v, row) ==
    CHOOSE path \in {dir_only(r) : r \in {resolved(TrimStart(row_text(v, row), " "))}} : TRUE

\* if depth > best_depth { best_path = Some(path) }
deeper_of(best, path) ==
    IF IsSome(path)
       /\ Len(components(Unwrap(path)))
            > (IF IsSome(best) THEN Len(components(Unwrap(best))) ELSE 0)
    THEN path ELSE best

\* for row in from..8.min(vt.rows()): the deepest directory shown, the
\* first of them when several are as deep
RECURSIVE best_from(_, _, _)
best_from(v, row, best) ==
    IF row >= Min(SCAN_ROWS, v.rows) THEN best
    ELSE best_from(v, row + 1,
                   CHOOSE b \in {deeper_of(best, path) : path \in {row_path(v, row)}} : TRUE)

best_path(v) == best_from(v, 0, None)

\* the scraped path `path` on a tick that adopts it at once whatever its
\* depth
debounce_none(p, path) == [p EXCEPT !.cwd = path, !.shallow_revert_count = 0]
\* the scraped path `path`: equal to cwd, deeper, or not deeper
debounce(p, path) ==
    IF PathEq(path, p.cwd) THEN [p EXCEPT !.shallow_revert_count = 0]
    ELSE IF Len(components(path)) > Len(components(p.cwd))
    THEN [p EXCEPT !.cwd = path, !.shallow_revert_count = 0]
    ELSE IF p.shallow_revert_count + 1 >= REVERT_TICKS
    THEN [p EXCEPT !.cwd = path, !.shallow_revert_count = 0]
    ELSE [p EXCEPT !.shallow_revert_count = @ + 1]

\* a fallback that adopts the process's directory and keeps the counter
fallback_keeps_count(p, proc) ==
    IF IsSome(p.child_pid) /\ IsSome(proc) /\ ~PathEq(Unwrap(proc), p.cwd)
    THEN [p EXCEPT !.cwd = Unwrap(proc)]
    ELSE p
\* the fallback: get_process_cwd(pid) returned proc
fallback(p, proc) ==
    IF IsSome(p.child_pid) /\ IsSome(proc) /\ ~PathEq(Unwrap(proc), p.cwd)
    THEN [p EXCEPT !.cwd = Unwrap(proc), !.shallow_revert_count = 0]
    ELSE p

\* `if let Ok(vt) = self.vterm.lock()` and OSC 7 reports another directory
Reported(p, reported) ==
    ~p.vterm.poisoned /\ IsSome(reported) /\ ~PathEq(Unwrap(reported), p.cwd)

\* `if let Ok(vt) = self.vterm.lock()`, OSC 7 reports nothing new and the
\* screen shows the directory best
Scraped(p, reported, best) ==
    ~p.vterm.poisoned /\ ~Reported(p, reported) /\ IsSome(best)

\* the sources tick reads: the OSC 7 report and the screen when the lock is
\* not poisoned, the process when neither returned before
consulted_of(p, reported, best) ==
    IF Reported(p, reported) THEN {"osc7"}
    ELSE IF Scraped(p, reported, best) THEN {"osc7", "screen"}
    ELSE (IF p.vterm.poisoned THEN {} ELSE {"osc7", "screen"})
             \cup (IF IsSome(p.child_pid) THEN {"process"} ELSE {})

\* tick with the OSC 7 report of the terminal, the deepest directory of its
\* screen and the result of get_process_cwd
tick_of(p, reported, best, proc) ==
    IF Reported(p, reported)
    THEN [p EXCEPT !.cwd = Unwrap(reported), !.shallow_revert_count = 0]
    ELSE IF Scraped(p, reported, best) THEN debounce(p, Unwrap(best))
    ELSE fallback(p, proc)

\* TerminalPane::tick with get_process_cwd returning proc: the pane after it
pane_tick(p, v, proc) ==
    CHOOSE q \in {tick_of(p, v.reported_cwd, best, proc) : best \in {best_path(v)}} : TRUE

\* the sources that tick reads
consulted(p, v) ==
    CHOOSE s \in {consulted_of(p, v.reported_cwd, best) : best \in {best_path(v)}} : TRUE

\* the path that scraping selects on a tick, None when tick does not get
\* to select one
selected(p, reported, best) == IF Scraped(p, reported, best) THEN best ELSE None

\* the run of ticks in a row, up to this one, on which scraping selected
\* the same path
streak_after(s, sel) ==
    IF sel = None THEN [path |-> None, n |-> 0]
    ELSE IF IsSome(s.path) /\ PathEq(Unwrap(s.path), Unwrap(sel))
    THEN [s EXCEPT !.n = Min(@ + 1, REVERT_TICKS)]
    ELSE [path |-> sel, n |-> 1]

-----------------------------------------------------------------------------
(* The PTY pane (src/src/terminal.rs): TerminalPane, its reader thread, the
   mutexes they share and the PTY behind them *)

\* the size the VirtualTerminal and the PTY are created with
INITIAL_COLS == 80
INITIAL_ROWS == 24

\* std::sync::Mutex: the thread holding it, and whether a holder panicked
NewMutex == [held_by |-> None, poisoned |-> FALSE]
\* a lock that is given to whoever asks
AlwaysFree(m) == TRUE
IsFree(m) == m.held_by = None
Acquire(m, thread) == [m EXCEPT !.held_by = Some(thread)]
Release(m) == [m EXCEPT !.held_by = None]
\* a guard dropped while its thread unwinds
Poison(m) == [held_by |-> None, poisoned |-> TRUE]

\* the step of try_spawn_claude the environment lets fail, if any
SpawnOutcomes ==
    {"ok", "openpty_err", "spawn_err", "take_writer_err", "clone_reader_err"}

\* a try_spawn_claude that takes the writer before it spawns the child, and
\* keeps it when the spawn fails
try_spawn_claude_writer_first(outcome) ==
    IF outcome = "openpty_err"
    THEN [ok |-> FALSE, pty |-> None, writer |-> None, child |-> "none",
          reader |-> FALSE]
    ELSE [ok |-> outcome \in {"ok", "take_writer_err"},
          pty |-> Some(<<INITIAL_COLS, INITIAL_ROWS>>),
          writer |-> IF outcome = "take_writer_err" THEN None ELSE Some("writer"),
          child |-> IF outcome = "spawn_err" THEN "none" ELSE "running",
          reader |-> outcome \in {"ok", "take_writer_err"}]

\* try_spawn_claude: what it returns and what it leaves behind.  pty is the
\* size of the PTY while one of its handles is open, writer the content of
\* the shared writer slot, child whether a child runs, reader whether the
\* reader thread was started
try_spawn_claude(outcome) ==
    CASE outcome = "openpty_err" ->
            [ok |-> FALSE, pty |-> None, writer |-> None, child |-> "none",
             reader |-> FALSE]
      [] outcome = "spawn_err" ->
            [ok |-> FALSE, pty |-> None, writer |-> None, child |-> "none",
             reader |-> FALSE]
      [] outcome = "take_writer_err" ->
            [ok |-> TRUE, pty |-> Some(<<INITIAL_COLS, INITIAL_ROWS>>),
             writer |-> None, child |-> "running", reader |-> TRUE]
      [] outcome = "clone_reader_err" ->
            [ok |-> FALSE, pty |-> Some(<<INITIAL_COLS, INITIAL_ROWS>>),
             writer |-> Some("writer"), child |-> "running", reader |-> FALSE]
      [] OTHER ->
            [ok |-> TRUE, pty |-> Some(<<INITIAL_COLS, INITIAL_ROWS>>),
             writer |-> Some("writer"), child |-> "running", reader |-> TRUE]

\* the text of the error e of a failed step
ErrText(outcome) == <<"E", "r", "r">>

\* the message of TerminalPane::new for a failed try_spawn_claude
FailedToStart(e) ==
    <<"F", "a", "i", "l", "e", "d", " ", "t", "o", " ", "s", "t", "a", "r",
      "t", " ", "C", "l", "a", "u", "d", "e", " ", "C", "o", "d", "e",
      ":", " ">> \o e \o
    <<"CR", "LF", "CR", "LF", "M", "a", "k", "e", " ", "s", "u", "r", "e",
      " ", "'", "c", "l", "a", "u", "d", "e", "'", " ", "C", "L", "I",
      " ", "i", "s", " ", "i", "n", "s", "t", "a", "l", "l", "e", "d",
      " ", "a", "n", "d", " ", "i", "n", " ", "y", "o", "u", "r", " ",
      "P", "A", "T", "H", ".", "CR", "LF", "I", "n", "s", "t", "a", "l",
      "l", ":", " ", "n", "p", "m", " ", "i", "n", "s", "t", "a", "l",
      "l", " ", "-", "g", " ", "@", "a", "n", "t", "h", "r", "o", "p",
      "i", "c", "-", "a", "i", "/", "c", "l", "a", "u", "d", "e", "-",
      "c", "o", "d", "e", "CR", "LF">>

\* TerminalPane::new: the fields of the pane
new_pane(spawned) ==
    [pty_pair |-> IF spawned.ok THEN Some("pair") ELSE None,
     pty_writer |-> [held_by |-> None, poisoned |-> FALSE, value |-> spawned.writer],
     vterm |-> NewMutex,
     child_pid |-> IF spawned.ok THEN Some("pid") ELSE None,
     process_exited |-> FALSE,
     last_cols |-> INITIAL_COLS,
     last_rows |-> INITIAL_ROWS,
     cwd |-> START_DIR,
     shallow_revert_count |-> 0]

\* TerminalPane::new: the terminal of the pane
new_vterm(spawned, e) ==
    IF spawned.ok THEN New(INITIAL_COLS, INITIAL_ROWS)
    ELSE feed(New(INITIAL_COLS, INITIAL_ROWS), FailedToStart(e))

-----------------------------------------------------------------------------
(* The reader thread of try_spawn_claude and the calls of the UI thread into
   the pane, in steps between which the other thread may run *)

\* chunks read from the PTY master, calls that write to the PTY
MaxReads == 2
MaxKeys == 2

\* KeyEvent { code, modifiers } of a key pressed alone
Key(code) == [code |-> code, modifiers |-> {}]

\* KeyCode::Char(c) of the model
Chars == {"a", "/", "?"}

\* KeyEvent { code, modifiers }
KeyWith(code, modifiers) == [code |-> code, modifiers |-> modifiers]

\* the xterm modifier parameter: 1 + (shift ? 1 : 0) + (alt ? 2 : 0) +
\* (ctrl ? 4 : 0)
modifier_param_swapped(modifiers) ==
    1 + (IF "SHIFT" \in modifiers THEN 1 ELSE 0)
      + (IF "ALT" \in modifiers THEN 4 ELSE 0)
      + (IF "CONTROL" \in modifiers THEN 2 ELSE 0)
modifier_param(modifiers) ==
    1 + (IF "SHIFT" \in modifiers THEN 1 ELSE 0)
      + (IF "ALT" \in modifiers THEN 2 ELSE 0)
      + (IF "CONTROL" \in modifiers THEN 4 ELSE 0)

\* if m == 1 { b"\x1b[X" } else { format!("\x1b[1;{}X", m) }
csi_letter(final, m) ==
    IF m = 1 THEN <<"ESC", "[", final>>
    ELSE <<"ESC", "[", "1", ";">> \o ToDecimal(m) \o <<final>>

\* if m == 1 { b"\x1b[n~" } else { format!("\x1b[n;{}~", m) }
csi_tilde(n, m) ==
    IF m = 1 THEN <<"ESC", "[">> \o ToDecimal(n) \o <<"~">>
    ELSE <<"ESC", "[">> \o ToDecimal(n) \o <<";">> \o ToDecimal(m) \o <<"~">>

\* F1..F4: if m == 1 { b"\x1bOX" } else { format!("\x1b[1;{}X", m) }
ss3_letter(final, m) ==
    IF m = 1 THEN <<"ESC", "O", final>>
    ELSE <<"ESC", "[", "1", ";">> \o ToDecimal(m) \o <<final>>

\* KeyCode::F(n) of the model, n = 1..13
FCodes == <<"F1", "F2", "F3", "F4", "F5", "F6", "F7", "F8", "F9", "F10",
            "F11", "F12", "F13">>
FNumber(code) == CHOOSE n \in 1..Len(FCodes) : FCodes[n] = code

\* KeyCode::F(n): F1..F4 are SS3 P..S, F5..F12 are CSI 15 17 18 19 20 21 23
\* 24 ~, any other n returns before the write
encode_f(n, m) ==
    CASE n = 1 -> Some(ss3_letter("P", m))
      [] n = 2 -> Some(ss3_letter("Q", m))
      [] n = 3 -> Some(ss3_letter("R", m))
      [] n = 4 -> Some(ss3_letter("S", m))
      [] n = 5 -> Some(csi_tilde(15, m))
      [] n = 6 -> Some(csi_tilde(17, m))
      [] n = 7 -> Some(csi_tilde(18, m))
      [] n = 8 -> Some(csi_tilde(19, m))
      [] n = 9 -> Some(csi_tilde(20, m))
      [] n = 10 -> Some(csi_tilde(21, m))
      [] n = 11 -> Some(csi_tilde(23, m))
      [] n = 12 -> Some(csi_tilde(24, m))
      [] OTHER -> None

\* the characters a key can carry and their code points; WIDE is a
\* character of three UTF-8 bytes (U+4E2D)
CodePoints ==
    [c \in Chars \cup {" ", "1", "@", "C", "[", "c", "z", "WIDE"} |->
        CASE c = " " -> 32
          [] c = "1" -> 49
          [] c = "/" -> 47
          [] c = "?" -> 63
          [] c = "@" -> 64
          [] c = "C" -> 67
          [] c = "[" -> 91
          [] c = "a" -> 97
          [] c = "c" -> 99
          [] c = "z" -> 122
          [] OTHER -> 20013]

\* the names of the bytes 0x01..0x1F
C0Names ==
    <<"SOH", "STX", "ETX", "EOT", "ENQ", "ACK", "BEL", "BS", "HT", "LF", "VT", "FF", "CR",
      "SO", "SI", "DLE", "DC1", "DC2", "DC3", "DC4", "NAK", "SYN", "ETB", "CAN", "EM", "SUB",
      "ESC", "FS", "GS", "RS", "US">>

\* the byte of value n
ByteOf(n) ==
    IF n = 0 THEN "NUL" ELSE IF n <= Len(C0Names) THEN C0Names[n] ELSE ByteChar(n)

\* char::to_ascii_lowercase on a code point
to_ascii_lowercase(cp) == IF cp \in 65..90 THEN cp + 32 ELSE cp

\* c.to_uppercase().next().unwrap_or(c) on the characters of the model
to_uppercase(c) ==
    CASE c = "a" -> "A"
      [] c = "c" -> "C"
      [] c = "z" -> "Z"
      [] OTHER -> c

\* (c.to_ascii_lowercase() as u8).wrapping_sub(b'a' - 1): the code point cut
\* to its low 8 bits, minus 0x60 modulo 2^8
ctrl_char(c) == ((to_ascii_lowercase(CodePoints[c]) % 256) + 256 - (97 - 1)) % 256

\* KeyCode::Char(c) with the modifiers mods
encode_char(c, mods) ==
    IF mods = {} THEN <<c>>
    ELSE IF mods = {"SHIFT"} THEN <<to_uppercase(c)>>
    ELSE IF mods = {"CONTROL"} THEN <<ByteOf(ctrl_char(c))>>
    ELSE IF mods = {"ALT"} THEN <<"ESC", c>>
    ELSE IF mods = {"CONTROL", "ALT"} THEN <<"ESC", ByteOf(ctrl_char(c))>>
    ELSE <<c>>

\* handle_key: the bytes of a key, None for a key that returns early
encode_key(key) ==
    CASE key.code \in DOMAIN CodePoints -> Some(encode_char(key.code, key.modifiers))
      [] key.code = "Enter" -> Some(<<"CR">>)
      [] key.code = "Backspace" ->
            Some(IF "ALT" \in key.modifiers THEN <<"ESC", "DEL">> ELSE <<"DEL">>)
      [] key.code = "Tab" ->
            Some(IF "SHIFT" \in key.modifiers THEN <<"ESC", "[", "Z">> ELSE <<"HT">>)
      [] key.code = "Esc" -> Some(<<"ESC">>)
      [] key.code = "Insert" -> Some(csi_tilde(2, modifier_param(key.modifiers)))
      [] key.code = "Up" -> Some(csi_letter("A", modifier_param(key.modifiers)))
      [] key.code = "Down" -> Some(csi_letter("B", modifier_param(key.modifiers)))
      [] key.code = "Right" -> Some(csi_letter("C", modifier_param(key.modifiers)))
      [] key.code = "Left" -> Some(csi_letter("D", modifier_param(key.modifiers)))
      [] key.code = "Home" -> Some(csi_letter("H", modifier_param(key.modifiers)))
      [] key.code = "End" -> Some(csi_letter("F", modifier_param(key.modifiers)))
      [] key.code = "PageUp" -> Some(csi_tilde(5, modifier_param(key.modifiers)))
      [] key.code = "PageDown" -> Some(csi_tilde(6, modifier_param(key.modifiers)))
      [] key.code = "Delete" -> Some(csi_tilde(3, modifier_param(key.modifiers)))
      [] key.code \in {FCodes[n] : n \in 1..Len(FCodes)} ->
            encode_f(FNumber(key.code), modifier_param(key.modifiers))
      [] key.code = "BackTab" -> Some(<<"ESC", "[", "Z">>)
      [] OTHER -> None

\* the PTY, the child, the notification channel given to the pane and the
\* event channel of EventHandler
new_os(spawned) ==
    [pty |-> spawned.pty,
     child |-> spawned.child,
     wire |-> <<>>,
     broken |-> FALSE,
     pty_rx |-> 0,
     pty_tx_open |-> spawned.reader,
     events |-> <<>>]

new_reader(spawned) ==
    [pc |-> IF spawned.reader THEN "read" ELSE "none",
     buf |-> <<>>, responses |-> <<>>, n |-> 0]

\* App::new and the UI thread: under run_app (loop) it is about to draw,
\* else it is between two calls into the pane
NewUi(loop) ==
    [pc |-> IF loop THEN "draw" ELSE "idle", loop |-> loop,
     cols |-> 0, rows |-> 0, pending |-> <<>>, n |-> 0,
     focused |-> "Terminal", input_mode |-> "Normal", show_help |-> FALSE,
     result |-> None]

\* where the UI thread is when it calls resize, and when a call of a key
\* handler has returned
Calling(a) == IF a.loop THEN "draw" ELSE "idle"

\* what the exploration remembers: what try_spawn_claude did, the last
\* operation, the chunks read and fed, the notifications sent, the bytes
\* each writing call of the UI thread had to write, whether a read failed,
\* the key, mouse and resize events produced, the PtyOutput events emitted, whether a notification was sent after the
\* last of them, and the event that made run_app return
NewHist(outcome) ==
    [outcome |-> outcome, op |-> "new", read |-> <<>>, fed |-> <<>>,
     notified |-> 0, keys |-> <<>>, eof |-> FALSE,
     inputs |-> 0, emitted |-> 0, fresh |-> FALSE, cause |-> None,
     key |-> None, streak |-> [path |-> None, n |-> 0]]

\* TerminalPane::new
PaneNewOf(outcomes) ==
    \E outcome \in outcomes :
        /\ pane = new_pane(try_spawn_claude(outcome))
        /\ vt = new_vterm(try_spawn_claude(outcome), ErrText(outcome))
        /\ os = new_os(try_spawn_claude(outcome))
        /\ reader = new_reader(try_spawn_claude(outcome))
        /\ app = NewUi(FALSE)
        /\ task = <<>>
        /\ hist = NewHist(outcome)

\* write_all of the writer: the next byte of `bytes` goes to the PTY
wire_byte(thread, n, bytes) == [by |-> thread, unit |-> n, b |-> Head(bytes)]

\* responses without the empty ones in front
RECURSIVE SkipEmpty(_)
SkipEmpty(rs) ==
    IF rs = <<>> \/ Head(rs) # <<>> THEN rs ELSE SkipEmpty(Tail(rs))

(* reader thread *)

\* reader.read(&mut buf) returns Ok(n), n > 0: one of chunks
ReaderReadOf(chunks) ==
    /\ reader.pc = "read"
    /\ Len(hist.read) < MaxReads
    /\ os.child = "running"
    /\ \E b \in chunks :
         /\ reader' = [reader EXCEPT !.pc = "feed", !.buf = b, !.n = @ + 1]
         /\ hist' = [hist EXCEPT !.op = "read", !.read = Append(@, b)]
    /\ UNCHANGED <<vt, pane, task, app, os>>

\* reader.read(&mut buf) returns Ok(0) or Err: break
ReaderEof ==
    /\ reader.pc = "read"
    /\ reader' = [reader EXCEPT !.pc = "exit"]
    /\ hist' = [hist EXCEPT !.op = "eof", !.eof = TRUE]
    /\ UNCHANGED <<vt, pane, task, app, os>>

\* a reader that notifies without flushing the responses
reader_skips_flush(responses) == "send"

\* where the reader goes after feed and take_responses
reader_after_feed(responses) == IF responses = <<>> THEN "send" ELSE "flush"

\* the reader with the VT lock: feed, take_responses, drop(vt); fed is the
\* terminal after feed
reader_fed(fed) ==
    IF fed.panicked
    THEN /\ vt' = fed
         /\ reader' = [reader EXCEPT !.pc = "panicked"]
         /\ pane' = [pane EXCEPT !.vterm = Poison(@)]
         /\ os' = [os EXCEPT !.pty_tx_open = FALSE]
    ELSE /\ vt' = take_responses(fed)
         /\ reader' = [reader EXCEPT !.pc = reader_after_feed(fed.response_queue),
                                     !.responses = fed.response_queue]
         /\ UNCHANGED <<pane, os>>

ReaderFeed ==
    /\ reader.pc = "feed"
    /\ IsFree(pane.vterm)
    /\ reader_fed(feed(vt, reader.buf))
    /\ hist' = [hist EXCEPT !.op = "feed", !.fed = Append(@, reader.buf)]
    /\ UNCHANGED <<task, app>>

\* writer_clone.lock(): no write when the mutex is poisoned or the slot empty
ReaderFlush ==
    /\ reader.pc = "flush"
    /\ IsFree(pane.pty_writer)
    /\ IF pane.pty_writer.poisoned \/ pane.pty_writer.value = None
       THEN /\ reader' = [reader EXCEPT !.pc = "send", !.responses = <<>>]
            /\ UNCHANGED pane
       ELSE /\ reader' = [reader EXCEPT !.pc = "write", !.responses = SkipEmpty(@)]
            /\ pane' = [pane EXCEPT !.pty_writer = Acquire(@, "reader")]
    /\ hist' = [hist EXCEPT !.op = "flush"]
    /\ UNCHANGED <<vt, task, app, os>>

\* writer.write_all(&resp): one more byte of the response is written, or the
\* write fails and the rest of the response is dropped; writes can fail
\* once the child is gone, and keep failing
ReaderWrite ==
    /\ reader.pc = "write"
    /\ reader.responses # <<>>
    /\ \/ /\ ~os.broken
          /\ os' = [os EXCEPT !.wire = Append(@, wire_byte("reader", reader.n,
                                                       Head(reader.responses)))]
          /\ reader' = [reader EXCEPT !.responses =
                            SkipEmpty(<<Tail(Head(@))>> \o Tail(@))]
       \/ /\ os.child # "running"
          /\ reader' = [reader EXCEPT !.responses = SkipEmpty(Tail(@))]
          /\ os' = [os EXCEPT !.broken = TRUE]
    /\ hist' = [hist EXCEPT !.op = "write"]
    /\ UNCHANGED <<vt, pane, task, app>>

\* writer.flush() and the end of the guard
ReaderUnlock ==
    /\ reader.pc = "write"
    /\ reader.responses = <<>>
    /\ reader' = [reader EXCEPT !.pc = "send"]
    /\ pane' = [pane EXCEPT !.pty_writer = Release(@)]
    /\ hist' = [hist EXCEPT !.op = "unlock"]
    /\ UNCHANGED <<vt, task, app, os>>

\* pty_tx.send(()): the result is ignored
ReaderSend ==
    /\ reader.pc = "send"
    /\ reader' = [reader EXCEPT !.pc = "read", !.buf = <<>>]
    /\ os' = [os EXCEPT !.pty_rx = @ + 1]
    /\ hist' = [hist EXCEPT !.op = "send", !.notified = @ + 1, !.fresh = TRUE]
    /\ UNCHANGED <<vt, pane, task, app>>

\* a reader that leaves the flag alone
ReaderStoreNothing ==
    /\ reader.pc = "exit"
    /\ reader' = [reader EXCEPT !.pc = "wait"]
    /\ hist' = [hist EXCEPT !.op = "store"]
    /\ UNCHANGED <<vt, pane, task, app, os>>

\* exited_clone.store(true, Ordering::SeqCst)
ReaderStore ==
    /\ reader.pc = "exit"
    /\ reader' = [reader EXCEPT !.pc = "wait"]
    /\ pane' = [pane EXCEPT !.process_exited = TRUE]
    /\ hist' = [hist EXCEPT !.op = "store"]
    /\ UNCHANGED <<vt, task, app, os>>

\* child.wait() returns once the child has exited; the thread ends and
\* drops its sender
ReaderWait ==
    /\ reader.pc = "wait"
    /\ os.child = "exited"
    /\ reader' = [reader EXCEPT !.pc = "done"]
    /\ os' = [os EXCEPT !.child = "reaped", !.pty_tx_open = FALSE]
    /\ hist' = [hist EXCEPT !.op = "wait"]
    /\ UNCHANGED <<vt, pane, task, app>>

\* the child process ends
ChildExits ==
    /\ os.child = "running"
    /\ os' = [os EXCEPT !.child = "exited"]
    /\ hist' = [hist EXCEPT !.op = "child_exit"]
    /\ UNCHANGED <<vt, pane, reader, task, app>>

(* UI thread *)

\* what master.resize returns
IoctlResults == {"ok", "err"}

\* TerminalPane::resize up to the VT lock: the early return, last_cols and
\* last_rows, master.resize, whose result is ignored (ioctl tells whether
\* the PTY took the size)
UiResizeOf(areas) ==
    /\ app.pc = Calling(app)
    /\ \E a \in areas, ioctl \in IoctlResults :
         IF a[1] = pane.last_cols /\ a[2] = pane.last_rows
         THEN /\ ioctl = "ok"
              /\ app' = [app EXCEPT !.pc = "resized", !.cols = a[1], !.rows = a[2]]
              /\ UNCHANGED <<pane, os>>
         ELSE /\ app' = [app EXCEPT !.pc = "resize_vt", !.cols = a[1], !.rows = a[2]]
              /\ pane' = [pane EXCEPT !.last_cols = a[1], !.last_rows = a[2]]
              /\ os' = [os EXCEPT !.pty =
                           IF IsSome(pane.pty_pair) /\ ioctl = "ok"
                           THEN Some(a) ELSE @]
    /\ hist' = [hist EXCEPT !.op = "resize"]
    /\ UNCHANGED <<vt, reader, task>>

\* the UI thread with the VT lock in resize: resized is the terminal after
\* vt.resize
ui_resized(resized) ==
    /\ vt' = resized
    /\ IF resized.panicked
       THEN /\ app' = [app EXCEPT !.pc = "panicked"]
            /\ pane' = [pane EXCEPT !.vterm = Poison(@)]
       ELSE /\ app' = [app EXCEPT !.pc = "resized"]
            /\ UNCHANGED pane

\* TerminalPane::resize: lock_or_recover(&self.vterm), vt.resize, return
UiResizeVt ==
    /\ app.pc = "resize_vt"
    /\ IsFree(pane.vterm)
    /\ ui_resized(resize(vt, app.cols, app.rows))
    /\ hist' = [hist EXCEPT !.op = "resize_vt"]
    /\ UNCHANGED <<reader, task, os>>

\* ui::draw after resize returned: TerminalWidget::render reads the terminal
\* under its lock (lock().unwrap() panics on a poisoned mutex)
UiRender ==
    /\ app.pc = "resized"
    /\ IsFree(pane.vterm)
    /\ app' = [app EXCEPT !.pc = IF pane.vterm.poisoned THEN "panicked"
                                 ELSE IF app.loop THEN "next" ELSE "idle"]
    /\ hist' = [hist EXCEPT !.op = "paint"]
    /\ UNCHANGED <<vt, pane, reader, task, os>>

\* the end of handle_key, send_interrupt and send_focus_event:
\* self.pty_writer.lock(), no write when the mutex is poisoned or the slot
\* is empty
ui_lock_writer(bytes) ==
    IF pane.pty_writer.poisoned \/ pane.pty_writer.value = None
    THEN /\ app' = [app EXCEPT !.pc = Calling(app)]
         /\ UNCHANGED pane
    ELSE /\ pane' = [pane EXCEPT !.pty_writer = Acquire(@, "ui")]
         /\ app' = [app EXCEPT !.pc = "write", !.pending = bytes,
                               !.n = Len(hist.keys) + 1]

\* the log after a call `op` that had `bytes` to write
wrote(h, op, bytes) == [h EXCEPT !.op = op, !.keys = Append(@, bytes)]

\* a call that writes `bytes` (an Option: None when the call returns before
\* the write)
ui_call(bytes) ==
    IF bytes = None
    THEN /\ app' = [app EXCEPT !.pc = Calling(app)]
         /\ UNCHANGED pane
    ELSE ui_lock_writer(Unwrap(bytes))

\* the call `op`, logged
ui_write_call(op, bytes) ==
    /\ ui_call(bytes)
    /\ hist' = wrote(hist, op, bytes)

\* handle_key(key) with one of keys
UiHandleKeyOf(keys) ==
    /\ app.pc = "idle"
    /\ Len(hist.keys) < MaxKeys
    /\ IsFree(pane.pty_writer)
    /\ \E key \in keys :
          /\ ui_call(encode_key(key))
          /\ hist' = [wrote(hist, "handle_key", encode_key(key)) EXCEPT !.key = Some(key)]
    /\ UNCHANGED <<vt, reader, task, os>>

\* send_interrupt()
UiSendInterrupt ==
    /\ app.pc = "idle"
    /\ Len(hist.keys) < MaxKeys
    /\ IsFree(pane.pty_writer)
    /\ ui_write_call("send_interrupt", Some(<<"ETX">>))
    /\ UNCHANGED <<vt, reader, task, os>>

\* send_focus_event(gained)
UiSendFocusEvent ==
    /\ app.pc = "idle"
    /\ Len(hist.keys) < MaxKeys
    /\ IsFree(pane.pty_writer)
    /\ \E gained \in BOOLEAN :
         ui_write_call("send_focus_event",
                       Some(IF gained THEN <<"ESC", "[", "I">> ELSE <<"ESC", "[", "O">>))
    /\ UNCHANGED <<vt, reader, task, os>>

\* writer.write_all(&bytes): one more byte is written, or the write fails
\* and the rest is dropped
UiWrite ==
    /\ app.pc = "write"
    /\ app.pending # <<>>
    /\ \/ /\ ~os.broken
          /\ os' = [os EXCEPT !.wire = Append(@, wire_byte("ui", app.n, app.pending))]
          /\ app' = [app EXCEPT !.pending = Tail(@)]
       \/ /\ os.child # "running"
          /\ app' = [app EXCEPT !.pending = <<>>]
          /\ os' = [os EXCEPT !.broken = TRUE]
    /\ hist' = [hist EXCEPT !.op = "write"]
    /\ UNCHANGED <<vt, pane, reader, task>>

\* writer.flush(), the end of the guard and the return
UiUnlock ==
    /\ app.pc = "write"
    /\ app.pending = <<>>
    /\ app' = [app EXCEPT !.pc = Calling(app)]
    /\ pane' = [pane EXCEPT !.pty_writer = Release(@)]
    /\ hist' = [hist EXCEPT !.op = "unlock"]
    /\ UNCHANGED <<vt, reader, task, os>>

-----------------------------------------------------------------------------
(* SpecPane: a pane, whatever try_spawn_claude did, and every call of the UI
   thread into it; the child writes nothing and may end *)

PaneAreas == {<<INITIAL_COLS, INITIAL_ROWS>>, <<2, 2>>}

PaneInit == PaneNewOf(SpawnOutcomes)

PaneResize == UiResizeOf(PaneAreas)

PaneKeys == {Key("Up"), Key("F13")}

PaneHandleKey == UiHandleKeyOf(PaneKeys)

PaneNext ==
    \/ PaneResize \/ UiResizeVt \/ UiRender
    \/ PaneHandleKey \/ UiSendInterrupt \/ UiSendFocusEvent \/ UiWrite \/ UiUnlock
    \/ ReaderEof \/ ReaderStore \/ ReaderWait \/ ChildExits

SpecPane == PaneInit /\ [][PaneNext]_vars

-----------------------------------------------------------------------------
(* SpecResize: the UI thread draws at changing sizes while the reader thread
   feeds what the child writes *)

ResizeAreas == {<<INITIAL_COLS, INITIAL_ROWS>>, <<2, 2>>, <<3, 1>>}

ResizeInit == PaneNewOf(SpawnOutcomes)

ResizeChunks == {<<"A">>, <<"LF">>}

ResizeRead == ReaderReadOf(ResizeChunks)

ResizeResize == UiResizeOf(ResizeAreas)

ResizeNext ==
    \/ ResizeResize \/ UiResizeVt \/ UiRender
    \/ ResizeRead \/ ReaderFeed \/ ReaderSend

SpecResize == ResizeInit /\ [][ResizeNext]_vars

-----------------------------------------------------------------------------
(* SpecWire: the reader thread answers the child's queries while the UI
   thread sends keys *)

\* what one read() returns: text, a status query, a cursor query followed by
\* a status query
WireChunks == {<<"A">>, DSR5, DSR6 \o DSR5}

\* try_spawn_claude returned Ok
WithChild == {"ok", "take_writer_err"}

WireInit == PaneNewOf(WithChild)

WireRead == ReaderReadOf(WireChunks)

WireKeys == {Key("Up"), Key("a")}

WireHandleKey == UiHandleKeyOf(WireKeys)

WireNext ==
    \/ WireRead \/ ReaderEof \/ ReaderFeed \/ ReaderFlush \/ ReaderWrite
    \/ ReaderUnlock \/ ReaderSend \/ ReaderStore \/ ReaderWait
    \/ WireHandleKey \/ UiWrite \/ UiUnlock
    \/ ChildExits

SpecWire == WireInit /\ [][WireNext]_vars

-----------------------------------------------------------------------------
(* SpecExit: the reader thread on its own, until its read fails and after;
   the thread is never stopped for good, so once out of its loop it goes on
   to its end, waiting only for the child in child.wait() *)

ExitInit == PaneNewOf(WithChild)

ExitRead == ReaderReadOf(WireChunks)

ExitNext ==
    \/ ExitRead \/ ReaderEof \/ ReaderFeed \/ ReaderFlush \/ ReaderWrite
    \/ ReaderUnlock \/ ReaderSend \/ ReaderStore \/ ReaderWait
    \/ ChildExits

\* the steps of the reader thread after its loop
ReaderExits == ReaderStore \/ ReaderWait

SpecExit == ExitInit /\ [][ExitNext]_vars /\ WF_vars(ReaderExits)

-----------------------------------------------------------------------------
(* The application: App, the event task of EventHandler::new and the loop
   of run_app.  The FileTree, the search query and the status message are
   left out: nothing read here depends on them. *)

\* events in the channel at most, key, mouse and resize events at most
MaxEvents == 1
MaxInputs == 3

\* event::Event
Event(type, arg) == [type |-> type, arg |-> arg]
Tick == Event("Tick", None)
PtyOutput == Event("PtyOutput", None)

\* KeyEvent with the Control modifier alone
Ctrl(code) == [code |-> code, modifiers |-> {"CONTROL"}]

\* the task spawned by EventHandler::new, selecting; `watching` says that
\* new_debouncer and watch succeeded, so that the debouncer holds a sender
NewTask(watching) == [pc |-> "select", woke |-> 0, taken |-> 0, watching |-> watching]

\* App::new with a pane that try_spawn_claude left as one of outcomes, and
\* EventHandler::new
AppNewOf(outcomes) ==
    \E outcome \in outcomes, watching \in BOOLEAN :
        /\ pane = new_pane(try_spawn_claude(outcome))
        /\ vt = new_vterm(try_spawn_claude(outcome), ErrText(outcome))
        /\ os = new_os(try_spawn_claude(outcome))
        /\ reader = new_reader(try_spawn_claude(outcome))
        /\ app = NewUi(TRUE)
        /\ task = NewTask(watching)
        /\ hist = NewHist(outcome)

\* run_app has not returned and the UI thread has not panicked: the receiver
\* of the event channel exists
Running == app.pc \notin {"returned", "panicked"}

(* event task *)

\* tick_delay fires: Event::Tick is sent
TaskTick ==
    /\ Running
    /\ task.pc = "select"
    /\ Len(os.events) < MaxEvents
    /\ os' = [os EXCEPT !.events = Append(@, Tick)]
    /\ UNCHANGED <<vt, hist, pane, reader, task, app>>

\* reader.next() gives a key, mouse or resize event: one of inputs is sent
TaskInputOf(inputs) ==
    /\ Running
    /\ task.pc = "select"
    /\ Len(os.events) < MaxEvents
    /\ hist.inputs < MaxInputs
    /\ \E e \in inputs : os' = [os EXCEPT !.events = Append(@, e)]
    /\ hist' = [hist EXCEPT !.inputs = @ + 1]
    /\ UNCHANGED <<vt, pane, reader, task, app>>

\* reader.next() gives Some(Err(_)) or None: break, the task ends and drops
\* its sender
TaskBreak ==
    /\ Running
    /\ task.pc = "select"
    /\ task' = [task EXCEPT !.pc = "ended"]
    /\ UNCHANGED <<vt, hist, pane, reader, app, os>>

\* Some(()) = pty_rx.recv(): the task wakes with a notification
TaskRecv ==
    /\ Running
    /\ task.pc = "select"
    /\ os.pty_rx > 0
    /\ task' = [task EXCEPT !.pc = "drain", !.woke = os.pty_rx, !.taken = 1]
    /\ os' = [os EXCEPT !.pty_rx = @ - 1]
    /\ UNCHANGED <<vt, hist, pane, reader, app>>

\* while pty_rx.try_recv().is_ok() {}: one more notification is taken
TaskTryRecv ==
    /\ Running
    /\ task.pc = "drain"
    /\ os.pty_rx > 0
    /\ task' = [task EXCEPT !.taken = @ + 1]
    /\ os' = [os EXCEPT !.pty_rx = @ - 1]
    /\ UNCHANGED <<vt, hist, pane, reader, app>>

\* a task that stops draining at once
TaskDrainedEarly ==
    /\ Running
    /\ task.pc = "drain"
    /\ task' = [task EXCEPT !.pc = "emit"]
    /\ UNCHANGED <<vt, hist, pane, reader, app, os>>

\* try_recv fails on the empty channel: the while loop ends
TaskDrained ==
    /\ Running
    /\ task.pc = "drain"
    /\ os.pty_rx = 0
    /\ task' = [task EXCEPT !.pc = "emit"]
    /\ UNCHANGED <<vt, hist, pane, reader, app, os>>

\* tx_clone.send(Event::PtyOutput) (the events sent here are no more than
\* the notifications)
TaskEmit ==
    /\ Running
    /\ task.pc = "emit"
    /\ task' = [task EXCEPT !.pc = "select"]
    /\ os' = [os EXCEPT !.events = Append(@, PtyOutput)]
    /\ hist' = [hist EXCEPT !.emitted = @ + 1, !.fresh = FALSE]
    /\ UNCHANGED <<vt, pane, reader, app>>

\* the debouncer's callback sends Event::FileChange
FsChange ==
    /\ Running
    /\ task.watching
    /\ Len(os.events) < MaxEvents
    /\ os' = [os EXCEPT !.events = Append(@, Event("FileChange", None))]
    /\ UNCHANGED <<vt, hist, pane, reader, task, app>>

(* App *)

\* what App::handle_key leaves: the App, its result, and the call into the
\* pane it ends with
Handled(a, quit, call) == [app |-> a, quit |-> quit, call |-> call]

\* handle_search_input
handle_search_input(a, key) ==
    Handled(IF key.code \in {"Enter", "Esc"}
            THEN [a EXCEPT !.input_mode = "Normal"] ELSE a,
            FALSE, "none")

\* handle_tree_key; `opened` is what tree.toggle_or_open() gave for Enter:
\* nothing, a directory or a file
handle_tree_key(a, key, opened) ==
    Handled(CASE key.code = "Enter" /\ opened = "file" -> [a EXCEPT !.focused = "Terminal"]
              [] key.code = "/" -> [a EXCEPT !.input_mode = "Search"]
              [] key.code \in {"Tab", "Esc"} -> [a EXCEPT !.focused = "Terminal"]
              [] OTHER -> a,
            FALSE, "none")

\* handle_terminal_key
handle_terminal_key(a, key) ==
    IF \/ key.code = "Tab" /\ key.modifiers = {}
       \/ key = Ctrl("t")
    THEN Handled([a EXCEPT !.focused = "Tree"], FALSE, "none")
    ELSE Handled(a, FALSE, "handle_key")

\* a handle_key whose Ctrl-C never leaves
handle_key_ctrl_q_only(a, key, opened) ==
    IF key = Ctrl("c") THEN
        Handled(a, FALSE, IF a.focused = "Terminal" THEN "send_interrupt" ELSE "none")
    ELSE IF key = Ctrl("q") THEN Handled(a, TRUE, "none")
    ELSE IF key.code = "F1" \/ (key.code = "?" /\ a.input_mode = "Normal") THEN
        Handled([a EXCEPT !.show_help = ~@], FALSE, "none")
    ELSE IF a.show_help THEN Handled([a EXCEPT !.show_help = FALSE], FALSE, "none")
    ELSE IF a.input_mode = "Search" THEN handle_search_input(a, key)
    ELSE IF a.focused = "Tree" THEN handle_tree_key(a, key, opened)
    ELSE handle_terminal_key(a, key)

\* App::handle_key
handle_key(a, key, opened) ==
    IF key = Ctrl("c") THEN
        IF a.focused = "Terminal" THEN Handled(a, FALSE, "send_interrupt")
        ELSE Handled(a, TRUE, "none")
    ELSE IF key = Ctrl("q") THEN Handled(a, TRUE, "none")
    ELSE IF key.code = "F1" \/ (key.code = "?" /\ a.input_mode = "Normal") THEN
        Handled([a EXCEPT !.show_help = ~@], FALSE, "none")
    ELSE IF a.show_help THEN Handled([a EXCEPT !.show_help = FALSE], FALSE, "none")
    ELSE IF a.input_mode = "Search" THEN handle_search_input(a, key)
    ELSE IF a.focused = "Tree" THEN handle_tree_key(a, key, opened)
    ELSE handle_terminal_key(a, key)

\* the bytes the call into the pane has to write
call_bytes(call, key) ==
    IF call = "send_interrupt" THEN Some(<<"ETX">>) ELSE encode_key(key)

(* run_app *)

\* event_handler.next() has an event of this type for the match
Matches(type) ==
    /\ app.pc = "next"
    /\ os.events # <<>>
    /\ Head(os.events).type = type

\* run_app returns
Return(a, result) == [a EXCEPT !.pc = "returned", !.result = Some(result)]

\* terminal.draw(..)? fails
AppDrawFails ==
    /\ app.pc = "draw"
    /\ app' = Return(app, "Err")
    /\ hist' = [hist EXCEPT !.cause = Some("draw")]
    /\ UNCHANGED <<vt, pane, reader, task, os>>

\* event_handler.next() on the closed channel: no event is left, the task
\* has ended and no debouncer holds a sender
AppClosed ==
    /\ app.pc = "next"
    /\ os.events = <<>>
    /\ task.pc = "ended"
    /\ ~task.watching
    /\ app' = Return(app, "Err")
    /\ hist' = [hist EXCEPT !.cause = Some("closed")]
    /\ UNCHANGED <<vt, pane, reader, task, os>>

\* App::tick: the result, after terminal.tick()
tick(p) == p.process_exited

\* get_process_cwd of a child that stays in the directory it was started in
StayedProc == {None, Some(START_DIR)}

\* Event::Tick: terminal.tick(), then the exit flag
AppTick ==
    /\ Matches("Tick")
    /\ IsFree(pane.vterm)
    /\ \E best \in {best_path(vt)} :
         /\ \E proc \in StayedProc : pane' = tick_of(pane, vt.reported_cwd, best, proc)
         /\ hist' = [hist EXCEPT !.cause = IF tick(pane) THEN Some(Head(os.events)) ELSE @,
                                 !.streak = streak_after(@, selected(pane, vt.reported_cwd, best))]
    /\ app' = IF tick(pane) THEN Return(app, "Ok") ELSE [app EXCEPT !.pc = "draw"]
    /\ os' = [os EXCEPT !.events = Tail(@)]
    /\ UNCHANGED <<vt, reader, task>>

\* the App and the pane after handle_key left `h`, and what made run_app
\* return
app_handled(h, key) ==
    /\ IF h.quit THEN app' = Return(h.app, "Ok") /\ UNCHANGED pane
       ELSE IF h.call = "none" THEN app' = [h.app EXCEPT !.pc = "draw"] /\ UNCHANGED pane
       ELSE IF call_bytes(h.call, key) = None
            THEN app' = [h.app EXCEPT !.pc = "draw"] /\ UNCHANGED pane
            ELSE IsFree(pane.pty_writer) /\ ui_lock_writer(Unwrap(call_bytes(h.call, key)))
    /\ hist' = [hist EXCEPT !.cause = IF h.quit THEN Some(Head(os.events)) ELSE @]

\* Event::Key
AppKey ==
    /\ Matches("Key")
    /\ \E opened \in {"none", "dir", "file"} :
         app_handled(handle_key(app, Head(os.events).arg, opened), Head(os.events).arg)
    /\ os' = [os EXCEPT !.events = Tail(@)]
    /\ UNCHANGED <<vt, reader, task>>

\* Event::Mouse: App::handle_mouse, scroll_up and scroll_down of the pane
handle_mouse(v, a, kind) ==
    IF a.focused = "Tree" THEN v
    ELSE CASE kind = "ScrollUp" -> set_scroll_offset(v, v.scroll_offset + 3)
           [] kind = "ScrollDown" -> set_scroll_offset(v, SatSub(v.scroll_offset, 3))
           [] OTHER -> v

AppMouse ==
    /\ Matches("Mouse")
    /\ IsFree(pane.vterm)
    /\ vt' = handle_mouse(vt, app, Head(os.events).arg)
    /\ app' = [app EXCEPT !.pc = "draw"]
    /\ os' = [os EXCEPT !.events = Tail(@)]
    /\ hist' = [hist EXCEPT !.op = "mouse"]
    /\ UNCHANGED <<pane, reader, task>>

\* Event::Resize and Event::FileChange: handle_resize does nothing,
\* handle_file_change refreshes the tree
AppOther ==
    /\ Matches("Resize") \/ Matches("FileChange")
    /\ app' = [app EXCEPT !.pc = "draw"]
    /\ os' = [os EXCEPT !.events = Tail(@)]
    /\ UNCHANGED <<vt, hist, pane, reader, task>>

-----------------------------------------------------------------------------
(* SpecApp: run_app with the event task, and the reader thread of a child
   that writes nothing.  run_app of this source has arms for Tick, Key,
   Mouse, Resize and FileChange; the other events are left out. *)

AppOutcomes == {"ok", "spawn_err"}

AppInit == AppNewOf(AppOutcomes)

AppKeys == {Ctrl("q"), Ctrl("c"), Key("Tab"), Key("/"), Key("?"), Key("Esc"), Key("a")}

AppInputs ==
    {Event("Key", k) : k \in AppKeys}
        \cup {Event("Mouse", "ScrollUp"), Event("Resize", None)}

AppAreas == {<<2, 2>>}

AppResize == UiResizeOf(AppAreas)

AppInput == TaskInputOf(AppInputs)

AppNext ==
    \/ AppResize \/ UiResizeVt \/ UiRender \/ AppDrawFails \/ AppClosed
    \/ AppTick \/ AppKey \/ AppMouse \/ AppOther
    \/ UiWrite \/ UiUnlock
    \/ TaskTick \/ AppInput \/ TaskBreak \/ FsChange
    \/ ReaderEof \/ ReaderStore \/ ReaderWait
    \/ ChildExits

SpecApp == AppInit /\ [][AppNext]_vars

-----------------------------------------------------------------------------
(* SpecTick: run_app, the ticks and keys of the event task, and the reader
   thread of a child that writes nothing or one sequence on which feed
   panics.  The UI thread, the tick interval and the reader thread are never
   stopped for good: each goes on when it can. *)

TickInit == AppNewOf(WithChild)

\* DECSTBM with a top beyond the last row, then SU
PanicChunk == CSI1(INITIAL_ROWS + BigParam, "r") \o CSI(<<"S">>)

TickChunks == {PanicChunk}

TickInputs == {Event("Key", Key("a"))}

TickRead == ReaderReadOf(TickChunks)

TickInput == TaskInputOf(TickInputs)

\* the steps of the UI thread
UiRuns ==
    \/ AppResize \/ UiResizeVt \/ UiRender
    \/ AppTick \/ AppKey \/ UiWrite \/ UiUnlock

\* the steps of the reader thread that end its loop
ReaderEnds == ReaderEof \/ ReaderStore \/ ReaderWait

TickNext ==
    \/ UiRuns \/ AppDrawFails \/ AppClosed
    \/ TaskTick \/ TickInput \/ TaskBreak
    \/ TickRead \/ ReaderFeed \/ ReaderEnds
    \/ ChildExits

SpecTick ==
    /\ TickInit /\ [][TickNext]_vars
    /\ WF_vars(UiRuns) /\ WF_vars(TaskTick) /\ WF_vars(ReaderEnds)

-----------------------------------------------------------------------------
(* SpecEvents: the reader thread and the event task's branch for the
   notifications of the pane, before run_app takes an event.  The task is
   never stopped for good while it can take a notification or send. *)

EventsOutcomes == {"ok"}

EventsInit == AppNewOf(EventsOutcomes)

EventsChunks == {<<"A">>, <<"LF">>}

EventsRead == ReaderReadOf(EventsChunks)

\* the steps of the task's branch for pty_rx
TaskPty == TaskRecv \/ TaskTryRecv \/ TaskDrained \/ TaskEmit

EventsNext ==
    \/ EventsRead \/ ReaderFeed \/ ReaderSend \/ ReaderEnds \/ ChildExits
    \/ TaskPty \/ TaskBreak

SpecEvents == EventsInit /\ [][EventsNext]_vars /\ WF_vars(TaskPty)

-----------------------------------------------------------------------------
(* SpecRegion: text, line feeds, cursor moves and reverse index on three
   rows with scroll regions that leave rows above and below them *)

RegionDims == {<<1, 3>>, <<2, 3>>}

RegionInit == InitOf(RegionDims)

RegionChunks ==
    {<<"A">>, <<"LF">>, <<"ESC", "M">>}
        \cup {CSI2(1, 2, "r"), CSI2(2, 3, "r"), CSI2(3, 3, "r"), CSI(<<"r">>)}
        \cup {CSI2(2, 1, "H"), CSI2(3, 1, "H")}

RegionFeed == FeedOf(RegionChunks)

RegionNext == RegionFeed

SpecRegion == RegionInit /\ [][RegionNext]_vars

-----------------------------------------------------------------------------
(* SpecAlt: the alternate screen entered and left through each of its three
   modes, with text and line feeds in between *)

AltDims == {<<2, 2>>}

AltInit == InitOf(AltDims)

AltModes == {47, 1047, 1049}

AltChunks ==
    {<<"A">>, <<"LF">>}
        \cup {DECSET(m) : m \in AltModes} \cup {DECRST(m) : m \in AltModes}

AltFeed == FeedOf(AltChunks)

AltNext == AltFeed

SpecAlt == AltInit /\ [][AltNext]_vars

-----------------------------------------------------------------------------
(* SpecKeys: a pane, whatever try_spawn_claude did, and one handle_key call
   with a named key and any of the modifiers; the child may end *)

KeyModifiers == SUBSET {"SHIFT", "ALT", "CONTROL"}

NamedCodes ==
    {"Up", "Down", "Right", "Left", "Home", "End", "PageUp", "PageDown",
     "Insert", "Delete"} \cup {FCodes[n] : n \in 1..Len(FCodes)}

NamedKeys == {KeyWith(code, modifiers) : code \in NamedCodes, modifiers \in KeyModifiers}

KeysInit == PaneNewOf(SpawnOutcomes)

KeysHandleKey == hist.key = None /\ UiHandleKeyOf(NamedKeys)

KeysNext == KeysHandleKey \/ UiWrite \/ UiUnlock \/ ChildExits

SpecKeys == KeysInit /\ [][KeysNext]_vars

-----------------------------------------------------------------------------
(* SpecFocus: the child turns focus-event tracking on and off while the UI
   thread reports focus changes *)

\* CSI ? 1004 h and CSI ? 1004 l: the child turns focus-event tracking on, off
FOCUS_ON == DECSET(1004)
FOCUS_OFF == DECRST(1004)

FocusChunks == {FOCUS_ON, FOCUS_OFF, <<"A">>}

FocusInit == PaneNewOf(WithChild)

FocusRead == ReaderReadOf(FocusChunks)

FocusNext ==
    \/ FocusRead \/ ReaderEof \/ ReaderFeed \/ ReaderSend \/ ReaderStore \/ ReaderWait
    \/ UiSendFocusEvent \/ UiWrite \/ UiUnlock
    \/ ChildExits

SpecFocus == FocusInit /\ [][FocusNext]_vars

-----------------------------------------------------------------------------
(* SpecCwd: the child redraws its screen, reports directories with OSC 7 or
   makes feed panic, while the UI thread calls tick *)

\* the child homes the cursor, clears the screen and prints text
Show(text) == CSI(<<"H">>) \o CSI(<<"2", "J">>) \o text

\* OSC 7 ; file://h<path> BEL
Osc7(path) ==
    <<"ESC", "]", "7", ";", "f", "i", "l", "e", ":", "/", "/", "h">> \o path \o <<"BEL">>

CwdChunks ==
    {Show(<<>>), Show(<<"/", "A">>), Show(<<"/", "B">>),
     Show(<<"/", "B", "CR", "LF", "~", "/", "A">>),
     Osc7(<<"/", "B">>), PanicChunk}

\* what get_process_cwd returns
ProcResults == {None, Some(<<"/", "B">>)}

CwdInit == PaneNewOf(WithChild)

CwdRead == ReaderReadOf(CwdChunks)

\* tick() with get_process_cwd returning one of procs
UiTickOf(procs) ==
    /\ app.pc = "idle"
    /\ IsFree(pane.vterm)
    /\ \E best \in {best_path(vt)} :
         /\ \E proc \in procs : pane' = tick_of(pane, vt.reported_cwd, best, proc)
         /\ hist' = [hist EXCEPT !.op = "tick",
                                 !.streak = streak_after(@, selected(pane, vt.reported_cwd, best))]
    /\ UNCHANGED <<vt, reader, task, app, os>>

CwdTick == UiTickOf(ProcResults)

CwdNext ==
    \/ CwdRead \/ ReaderFeed \/ ReaderSend
    \/ CwdTick

SpecCwd == CwdInit /\ [][CwdNext]_vars

-----------------------------------------------------------------------------
(* SpecLocks: the two mutexes step by step. Every lock of the reader thread
   and of the UI thread is a step of its own, so that a thread can be seen
   waiting for a mutex and holding one. *)

\* let mut vt = lock_or_recover(&vterm_clone)
ReaderLockVt ==
    /\ reader.pc = "feed"
    /\ IsFree(pane.vterm)
    /\ reader' = [reader EXCEPT !.pc = "locked"]
    /\ pane' = [pane EXCEPT !.vterm = Acquire(@, "reader")]
    /\ hist' = [hist EXCEPT !.op = "lock_vt"]
    /\ UNCHANGED <<vt, task, app, os>>

\* a reader that keeps the guard of the terminal while it goes on to write
\* the responses
ReaderFeedKeepsVt ==
    /\ reader.pc = "locked"
    /\ \E fed \in {feed(vt, reader.buf)} :
         /\ vt' = take_responses(fed)
         /\ reader' = [reader EXCEPT !.pc = reader_after_feed(fed.response_queue),
                                     !.responses = fed.response_queue]
    /\ hist' = [hist EXCEPT !.op = "feed", !.fed = Append(@, reader.buf)]
    /\ UNCHANGED <<pane, task, app, os>>

\* vt.feed(&buf[..n]), vt.take_responses(), drop(vt); a panic of feed
\* poisons the mutex
ReaderFeedLocked ==
    /\ reader.pc = "locked"
    /\ \E fed \in {feed(vt, reader.buf)} :
         IF fed.panicked
         THEN /\ vt' = fed
              /\ reader' = [reader EXCEPT !.pc = "panicked"]
              /\ pane' = [pane EXCEPT !.vterm = Poison(@)]
              /\ os' = [os EXCEPT !.pty_tx_open = FALSE]
         ELSE /\ vt' = take_responses(fed)
              /\ reader' = [reader EXCEPT !.pc = reader_after_feed(fed.response_queue),
                                          !.responses = fed.response_queue]
              /\ pane' = [pane EXCEPT !.vterm = Release(@)]
              /\ UNCHANGED os
    /\ hist' = [hist EXCEPT !.op = "feed", !.fed = Append(@, reader.buf)]
    /\ UNCHANGED <<task, app>>

\* the calls of the UI thread that lock the terminal
VtCalls == {"tick", "scroll_up", "scroll_down", "resize", "render"}

\* where the UI thread is when it is about to lock the terminal in a call
WantPc(call) ==
    CASE call = "tick" -> "want_tick"
      [] call = "scroll_up" -> "want_scroll_up"
      [] call = "scroll_down" -> "want_scroll_down"
      [] call = "resize" -> "resize_vt"
      [] call = "render" -> "resized"

\* where it is when the call has dropped the guard: ui::draw paints after
\* the resize
AfterPc(call) == IF call = "resize" THEN "resized" ELSE "idle"

\* tick(), scroll_up() or scroll_down() is called
UiBeginOf(calls) ==
    /\ app.pc = "idle"
    /\ \E call \in calls : app' = [app EXCEPT !.pc = WantPc(call)]
    /\ hist' = [hist EXCEPT !.op = "call"]
    /\ UNCHANGED <<vt, pane, reader, task, os>>

\* the lock on the terminal is granted: lock_or_recover in scroll_up,
\* scroll_down and resize; in tick `if let Ok(vt) = self.vterm.lock()`,
\* which goes to the fallback on a poisoned mutex; in render
\* lock().unwrap(), which panics on one
UiLockVt ==
    /\ IsFree(pane.vterm)
    /\ \E call \in VtCalls :
         /\ app.pc = WantPc(call)
         /\ IF call = "tick" /\ pane.vterm.poisoned
            THEN /\ \E proc \in StayedProc : pane' = fallback(pane, proc)
                 /\ app' = [app EXCEPT !.pc = "idle"]
            ELSE IF call = "render" /\ pane.vterm.poisoned
            THEN /\ app' = [app EXCEPT !.pc = "panicked"]
                 /\ UNCHANGED pane
            ELSE /\ pane' = [pane EXCEPT !.vterm = Acquire(@, "ui")]
                 /\ app' = [app EXCEPT !.pc = call]
    /\ hist' = [hist EXCEPT !.op = "lock_vt"]
    /\ UNCHANGED <<vt, reader, task, os>>

\* the terminal after the call that holds its lock
vt_called(v, call, a) ==
    CASE call = "scroll_up" -> set_scroll_offset(v, v.scroll_offset + 3)
      [] call = "scroll_down" -> set_scroll_offset(v, SatSub(v.scroll_offset, 3))
      [] call = "resize" -> resize(v, a.cols, a.rows)
      [] OTHER -> v

\* the call does its work with the guard and drops it; a panic with the
\* guard poisons the mutex
UiDropVt ==
    /\ app.pc \in VtCalls
    /\ \E after \in {vt_called(vt, app.pc, app)} :
         /\ vt' = after
         /\ IF after.panicked
            THEN /\ app' = [app EXCEPT !.pc = "panicked"]
                 /\ pane' = [pane EXCEPT !.vterm = Poison(@)]
            ELSE /\ app' = [app EXCEPT !.pc = AfterPc(app.pc)]
                 /\ \E proc \in StayedProc :
                      pane' = [(IF app.pc = "tick" THEN pane_tick(pane, vt, proc) ELSE pane)
                                  EXCEPT !.vterm = Release(@)]
    /\ hist' = [hist EXCEPT !.op = "drop_vt"]
    /\ UNCHANGED <<reader, task, os>>

\* handle_key(key) with one of keys up to self.pty_writer.lock(); a key
\* without bytes returns
UiBeginKeyOf(keys) ==
    /\ app.pc = "idle"
    /\ Len(hist.keys) < MaxKeys
    /\ \E key \in keys :
         IF encode_key(key) = None
         THEN /\ app' = app
              /\ hist' = [wrote(hist, "handle_key", None) EXCEPT !.key = Some(key)]
         ELSE /\ app' = [app EXCEPT !.pc = "want_writer", !.pending = Unwrap(encode_key(key))]
              /\ hist' = [hist EXCEPT !.op = "call", !.key = Some(key)]
    /\ UNCHANGED <<vt, pane, reader, task, os>>

\* self.pty_writer.lock() is granted
UiLockWriter ==
    /\ app.pc = "want_writer"
    /\ IsFree(pane.pty_writer)
    /\ ui_lock_writer(app.pending)
    /\ hist' = wrote(hist, "handle_key", Some(app.pending))
    /\ UNCHANGED <<vt, reader, task, os>>

LocksChunks == {DSR5, PanicChunk}

LocksKeys == {Key("Up")}

LocksAreas == {<<2, 2>>}

LocksCalls == {"tick", "scroll_up", "scroll_down"}

\* try_spawn_claude returned Ok with the writer stored
Spawned == {"ok"}

LocksInit == PaneNewOf(Spawned)

LocksRead == ReaderReadOf(LocksChunks)

LocksBegin == UiBeginOf(LocksCalls)

LocksBeginKey == UiBeginKeyOf(LocksKeys)

LocksResize == UiResizeOf(LocksAreas)

\* the steps of the reader thread and of the UI thread with the writer
ReaderWrites == ReaderWrite \/ ReaderUnlock \/ ReaderSend

UiWrites == UiWrite \/ UiUnlock

LocksNext ==
    \/ LocksRead \/ ReaderLockVt \/ ReaderFeedLocked \/ ReaderFlush \/ ReaderWrite
    \/ ReaderUnlock \/ ReaderSend
    \/ LocksBegin \/ LocksBeginKey \/ LocksResize
    \/ UiLockVt \/ UiDropVt \/ UiLockWriter \/ UiWrite \/ UiUnlock

\* a mutex goes to a thread that keeps asking for it, and a thread that
\* writes to the PTY goes on
SpecLocks ==
    /\ LocksInit /\ [][LocksNext]_vars
    /\ WF_vars(ReaderWrites) /\ WF_vars(UiWrites)
    /\ SF_vars(ReaderLockVt) /\ SF_vars(ReaderFlush)
    /\ SF_vars(UiLockVt) /\ SF_vars(UiLockWriter)

-----------------------------------------------------------------------------
(* SpecOffset: the view is scrolled back while the child scrolls lines into
   the scrollback, switches screens and resets the terminal *)

OffsetDims == {<<1, 1>>, <<1, 2>>}

OffsetInit == InitOf(OffsetDims)

OffsetChunks == {<<"A">>, <<"LF">>, ENTER_ALT, LEAVE_ALT, RIS}

OffsetFeed == FeedOf(OffsetChunks)

OffsetResize == ResizeTo(OffsetDims)

\* the offsets the view is set to
Offsets == {0, 1, 5}

\* vt.set_scroll_offset(offset) with one of offsets
SetScrollOffsetOf(offsets) ==
    /\ ~vt.panicked
    /\ \E offset \in offsets : vt' = set_scroll_offset(vt, offset)
    /\ hist' = [op |-> "set_scroll_offset"]
    /\ UNCHANGED procvars

OffsetSet == SetScrollOffsetOf(Offsets)

\* TerminalPane::scroll_up, TerminalPane::scroll_down
PaneScroll ==
    /\ ~vt.panicked
    /\ \E call \in {"scroll_up", "scroll_down"} : vt' = vt_called(vt, call, app)
    /\ hist' = [op |-> "scroll"]
    /\ UNCHANGED procvars

OffsetNext == OffsetFeed \/ OffsetResize \/ OffsetSet \/ PaneScroll

SpecOffset == OffsetInit /\ [][OffsetNext]_vars

-----------------------------------------------------------------------------
(* SpecSgr: SGR sequences with extended colours, complete and cut short *)

\* the parameters p1 ; p2 ; .. of a CSI sequence
RECURSIVE ParamBytes(_)
ParamBytes(ps) ==
    IF ps = <<>> THEN <<>>
    ELSE IF Len(ps) = 1 THEN ToDecimal(ps[1])
    ELSE ToDecimal(ps[1]) \o <<";">> \o ParamBytes(Tail(ps))

\* CSI p1 ; p2 ; .. m
SGR(ps) == CSI(ParamBytes(ps) \o <<"m">>)

SgrDims == {<<1, 1>>}

SgrInit == InitOf(SgrDims)

SgrParams ==
    {<<0>>, <<31>>, <<99>>, <<38>>, <<38, 5>>, <<38, 5, 7>>, <<38, 2>>, <<38, 2, 1>>,
     <<38, 2, 1, 2, 3>>, <<48>>, <<48, 5>>, <<48, 5, 7>>, <<48, 2, 1, 2>>, <<48, 2, 1, 2, 3>>}

SgrChunks == {SGR(ps) : ps \in SgrParams} \cup {<<"A">>}

SgrFeed == FeedOf(SgrChunks)

SgrNext == SgrFeed

SpecSgr == SgrInit /\ [][SgrNext]_vars

-----------------------------------------------------------------------------
(* SpecOsc: the child sends OSC sequences whose payloads hold '%' in every
   position, before hex digits, other characters and multi-byte characters *)

\* OSC <payload> BEL
Osc(payload) == <<"ESC", "]">> \o payload \o <<"BEL">>

OscDims == {<<1, 2>>, <<2, 2>>}

OscInit == InitOf(OscDims)

\* paths after file://h
OscPaths ==
    {<<"/", "B">>, <<"/", "%", "4", "1">>, <<"/", "%", "4", "2", "B">>, <<"/", "%", "4">>,
     <<"/", "%">>, <<"/", "%", "Z", "1">>, <<"/", "%", "4", "Z", "A">>,
     <<"/", "%", "%", "4", "1">>, <<"/", "%", "COMB">>, <<"/", "%", "COMB", "4", "1">>,
     <<"/", "%", "+", "4">>, <<"/", "%", "4", "WIDE">>, <<"/", "%", "WIDE">>,
     <<"/", "WIDE", "%", "2", "0">>}

\* OSC 7 payloads that name no path, and payloads of other OSC commands
OscOther ==
    {<<"7", ";", "/", "%", "4", "1">>, <<"7", ";", "f", "i", "l", "e", ":", "/", "/", "h">>,
     <<"7", ";", "f", "i", "l", "e", ":", "/", "%", "4", "WIDE">>, <<"7">>, <<>>,
     <<"0", ";", "%", "4", "WIDE">>, <<"8", ";", ";", "f", "i", "l", "e", ":", "/", "/", "h", "/", "%", "WIDE">>}

OscChunks ==
    {Osc7(path) : path \in OscPaths} \cup {Osc(payload) : payload \in OscOther}
        \cup {<<"A">>, <<"B">>, <<"LF">>}

OscFeed == FeedOf(OscChunks)

OscNext == OscFeed

SpecOsc == OscInit /\ [][OscNext]_vars

-----------------------------------------------------------------------------
(* SpecSettle: tick after tick on a pane whose terminal, directories and
   child process stay as they are: the child has reported a directory with
   OSC 7 or not, its screen shows a directory or not, and get_process_cwd
   returns the same result on every tick.  The UI thread ticks for ever. *)

\* what the child has written: an OSC 7 report or none, then its screen
SettleReports == {<<>>, Osc7(<<"/", "A">>), Osc7(<<"/", "B">>), Osc7(<<"/", "A", "/", "B">>)}

SettleShown == {<<>>, <<"/", "A">>, <<"/", "B">>, <<"/", "A", "/", "B">>}

SettleScreens == {report \o Show(text) : report \in SettleReports, text \in SettleShown}

SettleProcs == {None, Some(<<"/", "A">>), Some(<<"/", "B">>)}

SettleInit ==
    /\ \E screen \in SettleScreens : vt = feed(New(INITIAL_COLS, INITIAL_ROWS), screen)
    /\ \E proc \in SettleProcs : hist = [op |-> "new", proc |-> proc]
    /\ pane = new_pane(try_spawn_claude("ok"))
    /\ reader = <<>>
    /\ task = <<>>
    /\ app = <<>>
    /\ os = <<>>

\* tick() with get_process_cwd returning what it returns every time
SettleTick ==
    /\ \E best \in {best_path(vt)} :
         pane' = tick_of(pane, vt.reported_cwd, best, hist.proc)
    /\ hist' = [hist EXCEPT !.op = "tick"]
    /\ UNCHANGED <<vt, reader, task, app, os>>

SettleNext == SettleTick

SpecSettle == SettleInit /\ [][SettleNext]_vars /\ WF_vars(SettleTick)

-----------------------------------------------------------------------------
(* SpecCtrl: a pane with a child and one handle_key call with a character
   and Ctrl or Ctrl+Alt: letters of both cases, a digit, a space,
   punctuation and a character outside ASCII *)

CtrlChars == {"a", "c", "z", "C", "1", " ", "/", "@", "[", "WIDE"}

CtrlModifiers == {{"CONTROL"}, {"CONTROL", "ALT"}}

CtrlKeys == {KeyWith(c, modifiers) : c \in CtrlChars, modifiers \in CtrlModifiers}

CtrlInit == PaneNewOf(SpawnOutcomes)

CtrlHandleKey == hist.key = None /\ UiHandleKeyOf(CtrlKeys)

CtrlNext == CtrlHandleKey \/ UiWrite \/ UiUnlock \/ ChildExits

SpecCtrl == CtrlInit /\ [][CtrlNext]_vars

-----------------------------------------------------------------------------
(* Claims *)

\* C1: feed returns normally for every byte sequence, in every terminal
\* reachable from new(c, r) by feed and resize: no control sequence makes it
\* index the grid out of range or abort.
C1_FeedNeverFails == ~vt.panicked

\* C2: after every feed and every resize the grid has exactly `rows` rows and
\* every row has exactly `cols` cells, also when a resize happens between
\* entering and leaving the alternate screen.
C2_GridShape ==
    ~vt.panicked =>
        /\ Len(vt.grid) = vt.rows
        /\ \A r \in 1..Len(vt.grid) : Len(vt.grid[r]) = vt.cols

\* C3: after every feed and every resize cursor.x < cols and cursor.y < rows.
C3_CursorInGrid ==
    ~vt.panicked => vt.cursor.x < vt.cols /\ vt.cursor.y < vt.rows

\* C4: after every feed (CSI r with any parameters) and every resize,
\* 0 <= scroll_top < scroll_bottom <= rows.
C4_ScrollRegion ==
    ~vt.panicked =>
        /\ 0 <= vt.scroll_top
        /\ vt.scroll_top < vt.scroll_bottom
        /\ vt.scroll_bottom <= vt.rows

\* the last MAX_SCROLLBACK rows of s
KeepLast(s) ==
    IF Len(s) > MAX_SCROLLBACK
    THEN SubSeq(s, Len(s) - MAX_SCROLLBACK + 1, Len(s)) ELSE s

\* the step fed a line feed with the cursor on the last row of the region, or
\* CSI S: the top row of the screen scrolls off
ScrollsOff ==
    /\ hist'.op = "feed"
    /\ \/ hist'.bytes = CSI(<<"S">>)
       \/ hist'.bytes = <<"LF">> /\ vt.cursor.y + 1 >= vt.scroll_bottom
    /\ vt.rows > 0 /\ vt.scroll_top = 0 /\ vt.scroll_top < vt.scroll_bottom
    /\ ~vt'.panicked

\* C5: scrollback never holds more than MAX_SCROLLBACK (1000) rows, whatever
\* is fed and however the terminal is resized; a row that scrolls off the top
\* of the screen becomes the newest scrollback row, and when the scrollback
\* was full the oldest row is dropped and the others keep their order.
C5_ScrollbackBounded ==
    /\ [](Len(vt.scrollback) <= MAX_SCROLLBACK)
    /\ [][ScrollsOff =>
            vt'.scrollback = KeepLast(Append(vt.scrollback, vt.grid[1]))]_vars

\* C5 happens: a row scrolled off onto a full scrollback, which now starts
\* with the second line the child wrote ("A"), the first ("B") being dropped
C5_Witness ==
    /\ hist.op = "feed" /\ hist.full /\ ~vt.panicked
    /\ hist.bytes = <<"LF">>
    /\ Len(vt.scrollback) = MAX_SCROLLBACK
    /\ vt.scrollback[1][1].ch = <<"A">>
    /\ vt.scrollback[MAX_SCROLLBACK][1].ch = <<" ">>

\* C6: in every state, also one where the previous feed ended inside a
\* sequence, feeding a stream b in two pieces cut at any position leaves the
\* terminal (all of it: grid, cursor, style, scrollback, scroll region,
\* replies, reported cwd, and the parser) as feeding b in one piece does.
C6_SplitInvariance ==
    ~vt.panicked =>
        \A b \in SplitStreams : \A k \in 0..Len(b) :
            feed(feed(vt, SubSeq(b, 1, k)), SubSeq(b, k + 1, Len(b))) = feed(vt, b)

\* C6 happens: a feed returned in the middle of an OSC sequence, the rest of
\* the stream still to come
C6_Witness ==
    /\ hist.op = "feed" /\ hist.rest # <<>> /\ ~vt.panicked
    /\ Unwrap(vt.parser).state = "osc_string"
    /\ feed(vt, hist.rest).reported_cwd # vt.reported_cwd

\* what a full-screen program may write while the alternate screen is up
AltOutputs == {<<"A">>, <<"LF", "A">>, CSI2(2, 2, "H"), RIS, ENTER_ALT}

\* C7: from every state S, CSI ?1049h, any output on the alternate screen and
\* CSI ?1049l give back the grid, the cursor and the scrollback of S; right
\* after CSI ?1049h the grid is blank, the cursor is at (0,0) and the
\* scrollback is empty.
C7_AltRoundTrip ==
    ~vt.panicked =>
        /\ feed(vt, ENTER_ALT).grid = make_grid(vt.cols, vt.rows)
        /\ feed(vt, ENTER_ALT).cursor = DefaultCursor
        /\ feed(vt, ENTER_ALT).scrollback = <<>>
        /\ \A out \in AltOutputs :
             /\ feed(vt, ENTER_ALT \o out \o LEAVE_ALT).grid = vt.grid
             /\ feed(vt, ENTER_ALT \o out \o LEAVE_ALT).cursor = vt.cursor
             /\ feed(vt, ENTER_ALT \o out \o LEAVE_ALT).scrollback = vt.scrollback

\* row or col of CUP: 0 and 1 mean the first, beyond the last means the last
Clamp1(n, last) == Min(Max(n, 1), last)

\* the cursor position report ESC [ row ; col R
CPR(row, col) ==
    <<"ESC", "[">> \o ToDecimal(row) \o <<";">> \o ToDecimal(col) \o <<"R">>

\* C8: in every state, CSI row;col H (or f) followed by CSI 6 n appends
\* exactly one reply, ESC [ row ; col R, to the response queue, with row and
\* col clamped to the last row and column and a missing or zero parameter
\* read as 1; on the 12 x 11 terminal CSI 11;12 H reports ESC [ 11 ; 12 R.
C8_CupThenReport ==
    ~vt.panicked =>
        /\ \A row \in 0..(vt.rows + 2) : \A col \in 0..(vt.cols + 2) :
             \A final \in {"H", "f"} :
               feed(vt, CSI2(row, col, final) \o DSR6).response_queue
                 = Append(vt.response_queue,
                          CPR(Clamp1(row, vt.rows), Clamp1(col, vt.cols)))
        /\ \A n \in 1..(vt.rows + 2) :
             /\ feed(vt, CSI1(n, "H") \o DSR6).response_queue
                  = Append(vt.response_queue, CPR(Clamp1(n, vt.rows), 1))
             /\ feed(vt, CSI(<<";">> \o ToDecimal(n) \o <<"H">>) \o DSR6).response_queue
                  = Append(vt.response_queue, CPR(1, Clamp1(n, vt.cols)))
        /\ feed(vt, CSI(<<"H">>) \o DSR6).response_queue
             = Append(vt.response_queue, CPR(1, 1))
        /\ (vt.rows = 11 /\ vt.cols = 12) =>
             feed(vt, CSI2(11, 12, "H") \o DSR6).response_queue
               = Append(vt.response_queue,
                        <<"ESC", "[", "1", "1", ";", "1", "2", "R">>)

\* C8 happens: the queue holds the report of row 11, column 12, asked for
\* after CSI 11;12 H (or the clamped CSI 12;13 H)
C8_Witness ==
    /\ hist.op = "feed" /\ ~vt.panicked
    /\ vt.cursor = [DefaultCursor EXCEPT !.x = 11, !.y = 10]
    /\ vt.response_queue # <<>>
    /\ vt.response_queue[Len(vt.response_queue)]
         = <<"ESC", "[", "1", "1", ";", "1", "2", "R">>

\* the reply the terminal owes to the query q in the state v
ReplyTo(v, q) ==
    IF q = DSR5 THEN <<"ESC", "[", "0", "n">>
    ELSE CPR(v.cursor.y + 1, v.cursor.x + 1)

\* C9: a stream that holds one status query (CSI 5 n or CSI 6 n) followed by
\* anything leaves the replies owed before plus the reply to that query in
\* the queue, in that order, and take_responses then leaves the queue empty.
C9_RepliesQueued ==
    ~vt.panicked =>
        \A q \in {DSR5, DSR6} :
          \A rest \in {<<>>, <<"A">>, CSI2(2, 2, "H"), CSI1(1, "m"), RIS} :
            /\ feed(vt, q \o rest).response_queue
                 = Append(vt.response_queue, ReplyTo(vt, q))
            /\ take_responses(feed(vt, q \o rest)).response_queue = <<>>

\* terminal sizes resize is asked for
ResizeTargets == ScreenDims \cup {<<2, 2>>}

\* C10: resize(c2, r2) to another size gives r2 rows of c2 cells, the old
\* cells in the top-left min(rows, r2) x min(cols, c2) corner and default
\* cells elsewhere, the scroll region [0, r2), the cursor clamped into the
\* new size and the scrollback untouched; resize to the current size changes
\* nothing, and a second resize to the same size changes nothing either.
C10_ResizeSemantics ==
    ~vt.panicked =>
        \A d \in ResizeTargets :
          IF d[1] = vt.cols /\ d[2] = vt.rows
          THEN resize(vt, d[1], d[2]) = vt
          ELSE /\ ~resize(vt, d[1], d[2]).panicked
               /\ resize(vt, d[1], d[2]).grid
                    = [y \in 1..d[2] |-> [x \in 1..d[1] |->
                         IF y <= Min(vt.rows, d[2]) /\ x <= Min(vt.cols, d[1])
                         THEN vt.grid[y][x] ELSE DefaultCell]]
               /\ resize(vt, d[1], d[2]).scroll_top = 0
               /\ resize(vt, d[1], d[2]).scroll_bottom = d[2]
               /\ resize(vt, d[1], d[2]).cursor.x = Min(vt.cursor.x, d[1] - 1)
               /\ resize(vt, d[1], d[2]).cursor.y = Min(vt.cursor.y, d[2] - 1)
               /\ resize(vt, d[1], d[2]).scrollback = vt.scrollback
               /\ resize(resize(vt, d[1], d[2]), d[1], d[2]) = resize(vt, d[1], d[2])

\* C11: a grid cell with the empty grapheme is never in column 0 and has a
\* wide (width 2) glyph in the cell to its left, whatever was printed,
\* overwritten, deleted, inserted, erased or resized.
C11_ContinuationCells ==
    ~vt.panicked =>
        \A y \in 1..Len(vt.grid) : \A x \in 1..Len(vt.grid[y]) :
            vt.grid[y][x].ch = <<>> =>
                /\ x > 1
                /\ vt.grid[y][x - 1].ch # <<>>
                /\ char_width(vt.grid[y][x - 1].ch[1]) = 2

\* the sequences that scroll: LF, VT, FF, IND, RI, SU, SD, IL, DL
ScrollOps ==
    {<<"LF">>, <<"VT">>, <<"FF">>, <<"ESC", "D">>, <<"ESC", "M">>,
     CSI(<<"S">>), CSI(<<"T">>), CSI1(2, "S"), CSI1(2, "T"),
     CSI(<<"L">>), CSI(<<"M">>), CSI1(2, "L"), CSI1(2, "M")}

\* r is v after a scrolling operation: as many rows as before, the rows
\* outside [scroll_top, scroll_bottom) untouched, and scrollback changed only
\* by a region that starts at row 0
ScrollFrame(v, r) ==
    ~r.panicked =>
        /\ Len(r.grid) = v.rows
        /\ \A y \in 1..Len(v.grid) :
             (y - 1 < v.scroll_top \/ y - 1 >= v.scroll_bottom)
                 => (y <= Len(r.grid) /\ r.grid[y] = v.grid[y])
        /\ (r.scrollback # v.scrollback => v.scroll_top = 0)

\* C12: every scrolling operation (LF, VT, FF, IND, RI, SU, SD, IL, DL and
\* the scroll of a line wrap) keeps the number of grid rows at `rows`, leaves
\* the rows outside the scroll region as they were, and moves a row into
\* scrollback only when scroll_top = 0.
C12_ScrollFrame ==
    ~vt.panicked =>
        /\ \A b \in ScrollOps : ScrollFrame(vt, feed(vt, b))
        /\ ScrollFrame(vt, put_wrap(vt))

\* C13: when TerminalPane::resize(cols, rows) returns and the pane has a PTY,
\* the size of the PTY master, the (cols, rows) of the terminal and the
\* pane's last known size all equal the size asked for; the renderer, which
\* runs next on the UI thread, so never paints a terminal whose size is not
\* the PTY's.
C13_ResizeConsistent ==
    (app.pc = "resized" /\ IsSome(pane.pty_pair)) =>
        /\ os.pty = Some(<<app.cols, app.rows>>)
        /\ <<vt.cols, vt.rows>> = <<app.cols, app.rows>>
        /\ <<pane.last_cols, pane.last_rows>> = <<app.cols, app.rows>>

IsPrefix(s, t) == Len(s) <= Len(t) /\ SubSeq(t, 1, Len(s)) = s

\* the terminal after the reader fed the chunks of fed, one after the other,
\* taking the responses after each
RECURSIVE Replay(_, _)
Replay(v, fed) ==
    IF fed = <<>> THEN v
    ELSE Replay(take_responses(feed(v, Head(fed))), Tail(fed))

\* C14: the chunks read from the PTY master are fed to the terminal in the
\* order they were read, each in full and in one piece (the terminal is the
\* one obtained by feeding the chunks read so far, at most the last one
\* missing), and when the notification of a chunk is sent that chunk has
\* been fed and its responses have been given to the writer, whose lock the
\* reader has released.
C14_ReadOrder ==
    /\ IsPrefix(hist.fed, hist.read)
    /\ Len(hist.read) <= Len(hist.fed) + 1
    /\ vt = Replay(New(INITIAL_COLS, INITIAL_ROWS), hist.fed)
    /\ hist.notified <= Len(hist.fed)
    /\ hist.op = "send" =>
          /\ hist.notified = Len(hist.fed)
          /\ reader.responses = <<>>
          /\ pane.pty_writer.held_by # Some("reader")

\* two chunks were read, fed and notified, and replies went to the PTY
C14_Witness ==
    /\ hist.op = "send"
    /\ hist.notified = 2
    /\ hist.fed = <<DSR5, DSR6 \o DSR5>>
    /\ \E i \in 1..Len(os.wire) : os.wire[i].by = "reader" /\ os.wire[i].unit = 2

\* the bytes on the wire that thread wrote for its unit n (the n-th writing
\* call of the UI thread, the responses to the n-th chunk of the reader)
UnitBytes(thread, n) ==
    LET Is(e) == e.by = thread /\ e.unit = n
        sel == SelectSeq(os.wire, Is)
    IN [i \in 1..Len(sel) |-> sel[i].b]

\* C15: whatever the interleaving of the UI thread and the reader thread,
\* the bytes of the keys are on the wire in the order of the handle_key
\* calls, the bytes of one key are next to each other and are the bytes of
\* that key (all of them, or the first of them when a write failed), and no
\* byte of a key lies inside the responses to one chunk.
C15_KeysContiguous ==
    /\ \A i, j \in 1..Len(os.wire) :
          (i < j /\ os.wire[i].by = "ui" /\ os.wire[j].by = "ui")
              => os.wire[i].unit <= os.wire[j].unit
    /\ \A i, j, k \in 1..Len(os.wire) :
          (i < j /\ j < k /\ os.wire[i].by = os.wire[k].by
                 /\ os.wire[i].unit = os.wire[k].unit)
              => (os.wire[j].by = os.wire[i].by /\ os.wire[j].unit = os.wire[i].unit)
    /\ \A n \in 1..Len(hist.keys) :
          IsPrefix(UnitBytes("ui", n),
                   IF hist.keys[n] = None THEN <<>> ELSE Unwrap(hist.keys[n]))
    /\ \A e \in {os.wire[i] : i \in 1..Len(os.wire)} :
          e.by = "ui" => e.unit <= Len(hist.keys)

\* a key, then responses of the reader, then a second key are on the wire
C15_Witness ==
    \E i, j, k \in 1..Len(os.wire) :
        /\ i < j /\ j < k
        /\ os.wire[i].by = "ui" /\ os.wire[i].unit = 1
        /\ os.wire[j].by = "reader"
        /\ os.wire[k].by = "ui" /\ os.wire[k].unit = 2
        /\ UnitBytes("ui", 1) = <<"ESC", "[", "A">>

\* C16: once a read of the reader returned Ok(0) or an error the loop is
\* over, the exit flag becomes true and child.wait() is called after that,
\* so that a child that has ended is reaped; the flag is true only after
\* such a read (never while reads return data) and, once true, stays true.
C16_ExitFlag ==
    /\ [](pane.process_exited => hist.eof)
    /\ [](pane.process_exited <=> reader.pc \in {"wait", "done"})
    /\ [](os.child = "reaped" => pane.process_exited)
    /\ [](hist.eof => reader.pc \in {"exit", "wait", "done"})
    /\ [][pane.process_exited => pane'.process_exited]_vars
    /\ (hist.eof ~> pane.process_exited)
    /\ ((hist.eof /\ os.child = "exited") ~> os.child = "reaped")

\* the reader fed two chunks, its read failed, the flag is set and the child
\* is reaped
C16_Witness ==
    /\ Len(hist.fed) = 2
    /\ hist.eof
    /\ pane.process_exited
    /\ os.child = "reaped"

\* row y (0-based) of the grid of v begins with text
RowBegins(v, y, text) ==
    /\ y < Len(v.grid)
    /\ Len(text) <= Len(v.grid[y + 1])
    /\ \A i \in 1..Len(text) : v.grid[y + 1][i].ch = <<text[i]>>

\* C20: when openpty or spawn_command fails, TerminalPane::new still gives
\* a pane: it has no PTY pair and no child pid, its exit flag is and stays
\* false, the terminal shows the 'Failed to start' hint when new returns,
\* and every later handle_key, send_interrupt, send_focus_event and resize
\* returns without a byte written to a PTY and without a PTY resized.
C20_NoChildPane ==
    hist.outcome \in {"openpty_err", "spawn_err"} =>
        /\ pane.pty_pair = None
        /\ pane.child_pid = None
        /\ ~pane.process_exited
        /\ os.pty = None
        /\ os.wire = <<>>
        /\ app.pc \in {"idle", "resize_vt", "resized"}
        /\ hist.op = "new" =>
              /\ RowBegins(vt, 0, SubSeq(FailedToStart(<<>>), 1, 29)
                                   \o ErrText(hist.outcome))
              /\ RowBegins(vt, 2, <<"M", "a", "k", "e", " ", "s", "u", "r", "e">>)
              /\ RowBegins(vt, 3, <<"I", "n", "s", "t", "a", "l", "l", ":">>)
              /\ vt.cursor.y = 4

\* a pane whose spawn failed, after a resize and two calls that write
C20_Witness ==
    /\ hist.outcome = "spawn_err"
    /\ Len(hist.keys) = 2
    /\ hist.keys[1] = Some(<<"ESC", "[", "A">>)
    /\ hist.keys[2] = Some(<<"ETX">>)
    /\ <<vt.cols, vt.rows>> = <<2, 2>>
    /\ app.pc = "idle"

\* run_app returned Ok
ReturnedOk == app.pc = "returned" /\ app.result = Some("Ok")

\* the event run_app matches in this step makes it return
Leaves(e) ==
    \/ e = Event("Key", Ctrl("q"))
    \/ e = Event("Key", Ctrl("c")) /\ app.focused = "Tree"
    \/ e = Tick /\ pane.process_exited

\* C18 as stated: run_app returns Ok only for the key Ctrl-Q or for a Tick
\* that finds the exit flag set; no other key, mouse, resize or file-change
\* event makes it return.
C18_OnlyCtrlQ ==
    ReturnedOk =>
        \/ hist.cause = Some(Event("Key", Ctrl("q")))
        \/ hist.cause = Some(Tick) /\ pane.process_exited

\* C18 amended: run_app returns Ok exactly when it matches the key Ctrl-Q,
\* the key Ctrl-C while the tree pane is focused, or a Tick that finds the
\* exit flag set; every other key (in any focus, input mode and help state),
\* mouse, resize and file-change event is followed by the next draw; it
\* returns an error only when draw fails or the event channel is closed.
C18_ExitCauses ==
    /\ [](ReturnedOk =>
            \/ hist.cause = Some(Event("Key", Ctrl("q")))
            \/ hist.cause = Some(Event("Key", Ctrl("c")))
            \/ hist.cause = Some(Tick) /\ pane.process_exited)
    /\ [](app.pc = "returned" /\ ~ReturnedOk =>
            hist.cause \in {Some("draw"), Some("closed")})
    /\ [][app.pc = "next" /\ app'.pc # "next" /\ os.events # <<>> =>
            /\ (app'.pc = "returned") = Leaves(Head(os.events))
            /\ app'.pc = "returned" => app'.result = Some("Ok")]_vars

\* Ctrl-C made run_app return while the tree pane had the focus in search
\* mode
C18_Witness ==
    /\ ReturnedOk
    /\ hist.cause = Some(Event("Key", Ctrl("c")))
    /\ app.focused = "Tree"
    /\ app.input_mode = "Search"

\* C17: a Tick that run_app matches while the exit flag is set makes it
\* return Ok, and one matched while the flag is clear leaves the loop
\* running; as long as the event task runs (ticks are delivered) and the
\* reader thread is not stopped inside feed, a child that has exited leads
\* to run_app returning.
C17_TickExit ==
    /\ [][app.pc = "next" /\ app'.pc # "next" /\ os.events # <<>>
              /\ Head(os.events) = Tick =>
            IF pane.process_exited
            THEN app'.pc = "returned" /\ app'.result = Some("Ok")
            ELSE app'.pc = "draw"]_vars
    /\ ([](task.pc # "ended") /\ []<>(reader.pc # "feed")) =>
            ((os.child # "running") ~> (app.pc = "returned"))

WrapInRegion(v) ==
    put_advance(put_cell(
        IF v.cursor.y = v.scroll_bottom - 1
        THEN [scroll_up(v) EXCEPT !.cursor.x = 0, !.cursor.y = v.scroll_bottom - 1]
        ELSE [v EXCEPT !.cursor.x = 0, !.cursor.y = @ + 1],
        <<"A">>))

\* C28: a printable character that arrives with cursor.x >= cols, the cursor
\* being inside or above the scroll region, is put in column 0 of the next
\* row; from row scroll_bottom - 1 the region is scrolled up once and the
\* cursor stays on row scroll_bottom - 1, for every region.
C28_WrapInRegion ==
    (~vt.panicked /\ vt.cursor.x >= vt.cols /\ vt.cursor.y < vt.scroll_bottom) =>
        feed(vt, <<"A">>) = WrapInRegion(vt)

\* C30: ESC M with the cursor on a row other than scroll_top and other than
\* row 0 moves the cursor up one row and changes nothing else, also above
\* the scroll region; on row scroll_top it scrolls the region down and
\* leaves the cursor.
C30_ReverseIndex ==
    ~vt.panicked =>
        /\ (vt.cursor.y # vt.scroll_top /\ vt.cursor.y > 0) =>
              feed(vt, <<"ESC", "M">>) = [vt EXCEPT !.cursor.y = @ - 1]
        /\ vt.cursor.y = vt.scroll_top =>
              feed(vt, <<"ESC", "M">>) = scroll_down(vt)

\* C29: with a snapshot of the main screen pending, CSI ?47l and CSI ?1047l
\* bring back the grid and the scrollback saved at entry and leave the
\* cursor where it was just before; CSI ?1049l also brings back the cursor
\* saved at entry.
C29_AltNoCursor ==
    (~vt.panicked /\ IsSome(vt.saved_grid)) =>
        /\ \A m \in {47, 1047} :
              feed(vt, DECRST(m)) =
                  [vt EXCEPT !.grid = Unwrap(vt.saved_grid),
                             !.scrollback = Unwrap(vt.saved_scrollback),
                             !.saved_grid = None,
                             !.saved_scrollback = None,
                             !.saved_main_cursor = None]
        /\ feed(vt, DECRST(1049)).cursor = Unwrap(vt.saved_main_cursor)

-----------------------------------------------------------------------------
\* the sequence the input encoder is to write for a named key: the final
\* letter or the number of the key, and the modifier parameter
C25_Letter(code) ==
    CASE code = "Up" -> "A" [] code = "Down" -> "B" [] code = "Right" -> "C"
      [] code = "Left" -> "D" [] code = "Home" -> "H" [] code = "End" -> "F"
      [] code = "F1" -> "P" [] code = "F2" -> "Q" [] code = "F3" -> "R"
      [] code = "F4" -> "S" [] OTHER -> ""

C25_Number(code) ==
    CASE code = "Insert" -> 2 [] code = "Delete" -> 3 [] code = "PageUp" -> 5
      [] code = "PageDown" -> 6 [] code = "F5" -> 15 [] code = "F6" -> 17
      [] code = "F7" -> 18 [] code = "F8" -> 19 [] code = "F9" -> 20
      [] code = "F10" -> 21 [] code = "F11" -> 23 [] code = "F12" -> 24
      [] OTHER -> 0

C25_Param(modifiers) ==
    1 + Cardinality(modifiers \cap {"SHIFT"}) + 2 * Cardinality(modifiers \cap {"ALT"})
      + 4 * Cardinality(modifiers \cap {"CONTROL"})

C25_Sequence(key) ==
    LET m == C25_Param(key.modifiers)
    IN IF key.code = "F13" THEN <<>>
       ELSE IF C25_Letter(key.code) # ""
       THEN IF m > 1 THEN CSI2(1, m, C25_Letter(key.code))
            ELSE IF key.code \in {"F1", "F2", "F3", "F4"}
                 THEN <<"ESC", "O", C25_Letter(key.code)>>
                 ELSE CSI(<<C25_Letter(key.code)>>)
       ELSE IF m > 1 THEN CSI2(C25_Number(key.code), m, "~")
            ELSE CSI1(C25_Number(key.code), "~")

\* C25: when handle_key has returned for a named key with any subset of
\* Shift, Alt and Ctrl, the pane holds a writer and no write failed, the
\* bytes on the PTY are that key's sequence: ESC [ 1 ; m X (arrows, Home,
\* End, F1-F4) or ESC [ n ; m ~ (the others) with m = 1 + Shift + 2 Alt +
\* 4 Ctrl when m > 1, the form without ';m' when m = 1 (F1-F4 as ESC O X),
\* and nothing for F13.
C25_ModifiedKeys ==
    (hist.key # None /\ app.pc = "idle" /\ ~os.broken /\ pane.pty_writer.value # None)
        => UnitBytes("ui", 1) = C25_Sequence(Unwrap(hist.key))

\* Ctrl-Shift-F5 has been written as ESC [ 1 5 ; 6 ~
C25_Witness ==
    /\ hist.key = Some(KeyWith("F5", {"SHIFT", "CONTROL"}))
    /\ app.pc = "idle"
    /\ UnitBytes("ui", 1) = <<"ESC", "[", "1", "5", ";", "6", "~">>

-----------------------------------------------------------------------------
\* focus-event tracking as the child left it with the chunks it wrote: on
\* when the last DECSET/DECRST of mode 1004 among them is a DECSET
RECURSIVE C24_Tracking(_)
C24_Tracking(chunks) ==
    IF chunks = <<>> THEN FALSE
    ELSE IF chunks[Len(chunks)] = FOCUS_ON THEN TRUE
    ELSE IF chunks[Len(chunks)] = FOCUS_OFF THEN FALSE
    ELSE C24_Tracking(SubSeq(chunks, 1, Len(chunks) - 1))

\* C24: send_focus_event goes on to write ESC [ I or ESC [ O only when the
\* child has enabled focus-event tracking and has not disabled it since,
\* and no byte of a focus sequence is on the PTY unless the child has
\* enabled tracking before.
C24_FocusWhenTracked ==
    /\ (hist.op = "send_focus_event" /\ app.pc = "write") => C24_Tracking(hist.read)
    /\ (\E i \in 1..Len(os.wire) : os.wire[i].by = "ui")
          => (\E n \in 1..Len(hist.read) : hist.read[n] = FOCUS_ON)

-----------------------------------------------------------------------------
\* C21: whenever the terminal's reported_cwd is Some(P) with P other than
\* the pane's cwd, a tick sets cwd to P and the revert counter to 0 whatever
\* get_process_cwd would return, and reads neither the screen nor the
\* process.
C21_ReportedFirst ==
    (IsSome(vt.reported_cwd) /\ ~PathEq(Unwrap(vt.reported_cwd), pane.cwd))
        => /\ \A proc \in ProcResults :
                pane_tick(pane, vt, proc)
                    = [pane EXCEPT !.cwd = Unwrap(vt.reported_cwd),
                                   !.shallow_revert_count = 0]
           /\ consulted(pane, vt) = {"osc7"}

\* the pane after a tick on which scraping selected new, as the debounce
\* rule has it
C22_Debounced(p, new) ==
    IF PathEq(new, p.cwd) THEN [p EXCEPT !.shallow_revert_count = 0]
    ELSE IF Len(components(new)) > Len(components(p.cwd))
    THEN [p EXCEPT !.cwd = new, !.shallow_revert_count = 0]
    ELSE IF p.shallow_revert_count + 1 = REVERT_TICKS
    THEN [p EXCEPT !.cwd = new, !.shallow_revert_count = 0]
    ELSE [p EXCEPT !.shallow_revert_count = p.shallow_revert_count + 1]

C27_ConsecutiveTicks ==
    [][(/\ hist'.op = "tick"
        /\ Scraped(pane, vt.reported_cwd, best_path(vt))
        /\ ~PathEq(pane'.cwd, pane.cwd)
        /\ PathEq(pane'.cwd, Unwrap(best_path(vt)))
        /\ Len(components(pane'.cwd)) <= Len(components(pane.cwd)))
           => hist'.streak.n >= REVERT_TICKS]_vars

\* C23: after a holder of the terminal's mutex has panicked, a tick still
\* reads the terminal: it consults the OSC 7 report.
C23_PoisonTolerant ==
    pane.vterm.poisoned => "osc7" \in consulted(pane, vt)

-----------------------------------------------------------------------------
\* thread t holds mutex m
Holds(t, m) == m.held_by = Some(t)

\* the reader thread, the UI thread: stopped at a lock that another thread
\* holds
ReaderBlocked ==
    \/ reader.pc = "feed" /\ ~IsFree(pane.vterm)
    \/ reader.pc = "flush" /\ ~IsFree(pane.pty_writer)

UiBlocked ==
    \/ app.pc \in {WantPc(call) : call \in VtCalls} /\ ~IsFree(pane.vterm)
    \/ app.pc = "want_writer" /\ ~IsFree(pane.pty_writer)

\* C26: no thread ever holds the terminal's mutex and the writer's mutex
\* together, a thread that is stopped at a lock holds no mutex, and the two
\* threads are never both stopped at a lock; under fair scheduling, when no
\* thread stays for ever in the code it runs with the terminal's guard,
\* every turn of the reader's loop gets back to the read (or ends in a
\* panic of feed) and every call of the UI thread (handle_key, resize, tick,
\* scroll, render) returns or unwinds.
C26_LockOrder ==
    /\ [](\A t \in {"ui", "reader"} : ~(Holds(t, pane.vterm) /\ Holds(t, pane.pty_writer)))
    /\ [](ReaderBlocked => ~Holds("reader", pane.vterm) /\ ~Holds("reader", pane.pty_writer))
    /\ [](UiBlocked => ~Holds("ui", pane.vterm) /\ ~Holds("ui", pane.pty_writer))
    /\ [](~(ReaderBlocked /\ UiBlocked))
    /\ ([]<>(reader.pc # "locked") /\ []<>(app.pc \notin VtCalls))
          => /\ (reader.pc # "read" ~> reader.pc \in {"read", "panicked"})
             /\ (app.pc # "idle" ~> app.pc \in {"idle", "panicked"})

\* a key lands during a response drain: the reader has dropped the
\* terminal's guard and waits for the writer, which handle_key holds, while
\* responses are pending
C26_Witness ==
    /\ reader.pc = "flush"
    /\ reader.responses # <<>>
    /\ Holds("ui", pane.pty_writer)
    /\ IsFree(pane.vterm)

-----------------------------------------------------------------------------
\* C34: while a snapshot of the main screen is pending (the alternate screen
\* is active), entering the alternate screen again through mode 47, 1047 or
\* 1049 keeps that snapshot, so that the next leave restores the grid, the
\* cursor and the scrollback saved at the first entry; with no snapshot
\* pending a leave changes nothing.
C34_NestedEnter ==
    ~vt.panicked =>
        \A m \in AltModes :
            /\ IsSome(vt.saved_grid) =>
                  /\ feed(vt, DECSET(m)).saved_grid = vt.saved_grid
                  /\ feed(vt, DECSET(m)).saved_scrollback = vt.saved_scrollback
                  /\ feed(vt, DECSET(m)).saved_main_cursor = vt.saved_main_cursor
            /\ (vt.saved_grid = None /\ vt.saved_scrollback = None
                   /\ vt.saved_main_cursor = None)
                  => feed(vt, DECRST(m)) = vt

-----------------------------------------------------------------------------
\* C33: in every reachable state of the terminal scroll_offset is at most
\* the length of the scrollback, whatever feed, resize, set_scroll_offset
\* and the pane's scroll_up / scroll_down did before.
C33_OffsetInScrollback ==
    ~vt.panicked => vt.scroll_offset <= Len(vt.scrollback)

-----------------------------------------------------------------------------
\* the terminal with the foreground, the background set to colour c
C31_Fg(v, c) == [v EXCEPT !.current_style.fg = Some(c)]
C31_Bg(v, c) == [v EXCEPT !.current_style.bg = Some(c)]

\* C31: in an SGR sequence a sub-parameter missing after 38 or 48 counts as
\* 0: 38;5 sets the foreground to palette index 0, 38;2 with fewer than
\* three components sets an RGB foreground with 0 for each missing one, the
\* same with 48 for the background; an unknown code changes nothing.
C31_SgrDefaults ==
    ~vt.panicked =>
        /\ feed(vt, SGR(<<38, 5>>)) = C31_Fg(vt, <<"Indexed", 0>>)
        /\ feed(vt, SGR(<<48, 5>>)) = C31_Bg(vt, <<"Indexed", 0>>)
        /\ feed(vt, SGR(<<38, 2>>)) = C31_Fg(vt, <<"Rgb", 0, 0, 0>>)
        /\ feed(vt, SGR(<<38, 2, 1>>)) = C31_Fg(vt, <<"Rgb", 1, 0, 0>>)
        /\ feed(vt, SGR(<<38, 2, 1, 2>>)) = C31_Fg(vt, <<"Rgb", 1, 2, 0>>)
        /\ feed(vt, SGR(<<48, 2>>)) = C31_Bg(vt, <<"Rgb", 0, 0, 0>>)
        /\ feed(vt, SGR(<<48, 2, 1>>)) = C31_Bg(vt, <<"Rgb", 1, 0, 0>>)
        /\ feed(vt, SGR(<<48, 2, 1, 2>>)) = C31_Bg(vt, <<"Rgb", 1, 2, 0>>)
        /\ \A code \in {5, 8, 99} : feed(vt, SGR(<<code>>)) = vt

-----------------------------------------------------------------------------
\* the decoding of the claim: '%' and two hex digits make one byte, every
\* other character is copied
RECURSIVE C32_Decoded(_)
C32_Decoded(input) ==
    IF input = <<>> THEN <<>>
    ELSE IF /\ Head(input) = "%"
            /\ Len(input) >= 3
            /\ IsHex(input[2])
            /\ IsHex(input[3])
    THEN <<ByteChar(16 * HexVal(input[2]) + HexVal(input[3]))>>
             \o C32_Decoded(SubSeq(input, 4, Len(input)))
    ELSE <<Head(input)>> \o C32_Decoded(Tail(input))

\* C32: every OSC 7 payload is percent-decoded without an error: '%' and two
\* hex digits become the byte, every other '%' is copied; a payload without
\* file:// or without a '/' after the host leaves reported_cwd alone; no OSC
\* payload makes feed fail.
C32_OscDecodes ==
    ~vt.panicked =>
        /\ \A path \in OscPaths :
               /\ ~feed(vt, Osc7(path)).panicked
               /\ feed(vt, Osc7(path)).reported_cwd = Some(C32_Decoded(path))
        /\ \A payload \in OscOther :
               /\ ~feed(vt, Osc(payload)).panicked
               /\ feed(vt, Osc(payload)).reported_cwd = vt.reported_cwd

-----------------------------------------------------------------------------
\* the reader thread parses its chunk in this step
C35_ReaderParses == reader.pc = "feed" /\ reader'.pc # "feed"

\* C35: no feed of the reader thread falls between the resize of the PTY
\* master and the resize of the terminal in one TerminalPane::resize call:
\* the reader never parses a chunk with a terminal whose size is not the size
\* the PTY master already has.
C35_ResizeAtomic ==
    [][C35_ReaderParses =>
           /\ app.pc # "resize_vt"
           /\ IsSome(os.pty) => os.pty = Some(<<vt.cols, vt.rows>>)]_vars

-----------------------------------------------------------------------------
\* the reader thread has left its loop: after a read that returned Ok(0) or
\* an error, or unwinding from a panic inside feed
C36_ReaderStopped == reader # <<>> /\ reader.pc \in {"exit", "wait", "done", "panicked"}

\* C36: whenever the reader thread stops, after EOF, a read error or a panic
\* inside feed under the terminal's lock, is_process_exited() returns true
\* from some point on, so the shutdown of the UI on a tick is not left
\* waiting for a dead reader.
C36_StoppedReaderExits ==
    C36_ReaderStopped ~> [](pane.process_exited)

-----------------------------------------------------------------------------
\* C37: whichever step of try_spawn_claude fails, the pane TerminalPane::new
\* returns is consistent: the shared writer slot holds a writer only if the
\* pane holds the PTY pair and a reader thread runs, and a child that was
\* spawned is owned by a reader thread, which will wait on it.
C37_SpawnConsistent ==
    hist.op = "new" =>
        /\ IsSome(pane.pty_writer.value) =>
              IsSome(pane.pty_pair) /\ reader.pc = "read"
        /\ os.child # "none" => reader.pc = "read"

-----------------------------------------------------------------------------
\* C38: with the terminal, the directories and the child's cwd unchanged,
\* tick after tick comes to a fixed point: from some tick on cwd never
\* changes, whatever the OSC 7 report, the path on the screen and the cwd of
\* the process are.
C38_FixedPoint == <>[][pane'.cwd = pane.cwd]_vars

-----------------------------------------------------------------------------
\* C39: after every tick the revert counter is at least 0 and at most 15,
\* and it is 0 after every tick that changed cwd.
C39_CounterRange ==
    [][hist'.op = "tick" =>
           /\ pane'.shallow_revert_count \in 0..(REVERT_TICKS - 1)
           /\ pane'.cwd # pane.cwd => pane'.shallow_revert_count = 0]_vars

\* a tick has just counted the 15th detection of a path that is not deeper
\* than cwd, and cwd is as it was
C39_Witness ==
    /\ hist.op = "tick"
    /\ pane.shallow_revert_count = REVERT_TICKS - 1
    /\ pane.cwd = START_DIR

-----------------------------------------------------------------------------
\* the bytes 0x00..0x1F
C40_C0 == {"NUL"} \cup {C0Names[n] : n \in 1..Len(C0Names)}

\* the ASCII letters among the characters of the model, with their place in
\* the alphabet
C40_Letter == [c \in {"a", "c", "z", "C"} |->
                 CASE c = "a" -> 1 [] c = "z" -> 26 [] OTHER -> 3]

\* C40: when handle_key has returned for a character c with exactly Ctrl,
\* one byte was written and it is a C0 control (0x00..0x1F), for a letter
\* lowercase(c) - 'a' + 1; with Ctrl+Alt, ESC and that byte; the wrapping
\* subtraction gives no byte of 0x20 or more for a digit, punctuation, a
\* space or a character outside ASCII.
C40_CtrlBytes ==
    (hist.key # None /\ app.pc = "idle" /\ ~os.broken /\ pane.pty_writer.value # None)
        => LET key == Unwrap(hist.key)
               bytes == UnitBytes("ui", 1)
               byte == bytes[Len(bytes)]
           IN /\ Len(bytes) = IF key.modifiers = {"CONTROL"} THEN 1 ELSE 2
              /\ key.modifiers = {"CONTROL", "ALT"} => bytes[1] = "ESC"
              /\ byte \in C40_C0
              /\ key.code \in DOMAIN C40_Letter => byte = C0Names[C40_Letter[key.code]]

====
